---- MODULE Spec2Model ----
(***************************************************************************)
(* Model of the memory store of Table_Pet                                  *)
(* (Table_Pet-main/project/app/memory_system.py): AdvancedMemorySystem     *)
(* with its vector index (faiss.IndexFlatIP or the MockFaiss stand-in the  *)
(* module installs when faiss cannot be imported), its soft delete and     *)
(* compaction, its search in embedding mode and in fallback mode, and its  *)
(* two-file persistence.                                                   *)
(*                                                                         *)
(* A text is a sequence of symbols (a symbol is a character or an atomic   *)
(* word), so that strip(), split(), lower() and == act on it as they do on *)
(* a Python str.  A score is the rational [n, d] (d > 0); scores are       *)
(* compared by cross-multiplication.  Positions are Python's 0-based ones  *)
(* wherever the program exposes them (the 'index' field of a result).      *)
(***************************************************************************)
EXTENDS Integers, Sequences, FiniteSets, TLC

\* -------------------------------------------------------------- bounds
\* add_memory is offered while next_id < MaxId
MaxId == 3
\* the detectors are given utterances of at most MaxFragments pieces
MaxFragments == 3
\* a chat, or a use of the memory manager, inserts while next_id < MaxChatId
MaxChatId == 2
\* the store deletions by content are tried on grows while next_id < MaxBulk:
\* to one record more than the ten a deletion by content searches for
MaxBulk == 11
\* records put into the store a retrieval of RetrievalTopK records is made from
MaxRecall == 4

\* ------------------------------------------------- program constants
\* self.dimension of a store whose embedding model failed to load
FallbackDimension == 768
\* get_sentence_embedding_dimension() of paraphrase-multilingual-MiniLM-L12-v2
ModelDimension == 384
\* MockFaiss.read_index builds IndexFlatIP(768)
MockReadDimension == 768
\* delete_memories_by_content searches with top_k=10
ContentTopK == 10
\* seconds per hour, delete_recent_memories: hours * 3600
SecondsPerHour == 3600
\* process_deletion_request: delete_recent_memories(24)
RecentHours == 24
\* process_input: search_memories(user_input, top_k=3, threshold=0.6)
RetrievalTopK == 3
\* _list_memories(limit=10)
ListLimit == 10
\* _list_memories: memory[:100]
ListTextLimit == 100

\* --------------------------------------------------------------- texts
\* the text that marks a soft-deleted slot, "[DELETED]"
DELETED == <<"[DELETED]">>

Whitespace == {" ", "\t"}

\* the symbols str.lower() changes: the capital letters, and the deletion
\* sentinel, which is one symbol
LowerCase ==
    ("A" :> "a") @@ ("B" :> "b") @@ ("C" :> "c") @@ ("D" :> "d") @@ ("E" :> "e") @@ ("F" :> "f") @@
    ("G" :> "g") @@ ("H" :> "h") @@ ("I" :> "i") @@ ("J" :> "j") @@ ("K" :> "k") @@ ("L" :> "l") @@
    ("M" :> "m") @@ ("N" :> "n") @@ ("O" :> "o") @@ ("P" :> "p") @@ ("Q" :> "q") @@ ("R" :> "r") @@
    ("S" :> "s") @@ ("T" :> "t") @@ ("U" :> "u") @@ ("V" :> "v") @@ ("W" :> "w") @@ ("X" :> "x") @@
    ("Y" :> "y") @@ ("Z" :> "z") @@
    ("[DELETED]" :> "[deleted]")

\* str.lower() on one symbol
LowerSym(c) == IF c \in DOMAIN LowerCase THEN LowerCase[c] ELSE c

\* str.lower()
Lower(text) == [i \in 1..Len(text) |-> LowerSym(text[i])]

\* str.strip(): leading and trailing whitespace removed
RECURSIVE LStrip(_)
LStrip(text) ==
    IF text # <<>> /\ Head(text) \in Whitespace THEN LStrip(Tail(text)) ELSE text

RECURSIVE RStrip(_)
RStrip(text) ==
    IF text # <<>> /\ text[Len(text)] \in Whitespace
    THEN RStrip(SubSeq(text, 1, Len(text) - 1))
    ELSE text

Strip(text) == RStrip(LStrip(text))

\* set(str.split()): the set of maximal whitespace-free runs of the text
RECURSIVE SplitFrom(_, _, _)
SplitFrom(text, i, word) ==
    IF i > Len(text)
    THEN (IF word = <<>> THEN {} ELSE {word})
    ELSE IF text[i] \in Whitespace
         THEN (IF word = <<>> THEN {} ELSE {word}) \cup SplitFrom(text, i + 1, <<>>)
         ELSE SplitFrom(text, i + 1, Append(word, text[i]))

WordSet(text) == SplitFrom(text, 1, <<>>)

\* -------------------------------------------------------------- scores
Rat(n, d) == [n |-> n, d |-> d]
GE(x, y) == x.n * y.d >= y.n * x.d
GT(x, y) == x.n * y.d > y.n * x.d
EQ(x, y) == x.n * y.d = y.n * x.d

\* _simple_similarity: Jaccard similarity of the two lower-cased word sets
_simple_similarity(text1, text2) ==
    LET words1 == WordSet(Lower(text1))
        words2 == WordSet(Lower(text2))
        intersection == words1 \cap words2
        union == words1 \cup words2
    IN  IF words1 = {} /\ words2 = {}
        THEN Rat(0, 1)
        ELSE Rat(Cardinality(intersection), Cardinality(union))

\* ------------------------------------------------------------- vectors
\* A vector is [dim, v]: dim is its length, v two coordinates that stand for
\* all of them.  Every vector of the model has norm 5.
Vec(dim, v) == [dim |-> dim, v |-> v]
Dot(a, b) == a.v[1] * b.v[1] + a.v[2] * b.v[2]
Norm(a) == CHOOSE r \in 0..(Dot(a, a)) : r * r = Dot(a, a)
\* the square of the coordinates' unit
UnitSq == 5 * 5

\* SentenceTransformer.encode on one text: a fixed function of the words
Encode(text) ==
    LET w == WordSet(Lower(text))
    IN  Vec(ModelDimension,
            CASE w = {<<"a">>} -> <<5, 0>>
              [] w = {<<"b">>} -> <<0, 5>>
              [] w = {<<"a">>, <<"b">>} -> <<3, 4>>
              [] OTHER -> <<4, 3>>)

\* the values np.random.rand(1, dimension) is drawn from
RandomVectors(dim) == {Vec(dim, <<3, 4>>), Vec(dim, <<4, 3>>)}

\* the rows np.random.rand(n, dimension) can yield for a store: none in
\* embedding mode, where it is not called
FakeRows(self, n) ==
    IF self.model THEN {<<>>} ELSE [1..n -> RandomVectors(self.dimension)]

\* ---------------------------------------------------------------- index
\* The index object: kind is the implementation the name faiss is bound to
\* ("faiss": the library; "mock": MockFaiss), data the vectors it holds.
IndexFlatIP(kind, dimension) == [kind |-> kind, dimension |-> dimension, data |-> <<>>]

\* index.ntotal / len(index.data)
IndexCount(index) == Len(index.data)

\* index.add(embeddings) raises: the library asserts the rows' length
IndexAddRaises(index, embeddings) ==
    /\ index.kind = "faiss"
    /\ \E i \in 1..Len(embeddings) : embeddings[i].dim # index.dimension

\* index.add(embeddings): the library appends every row; MockFaiss appends
\* embedding[0], the first row, whatever the number of rows
IndexAdd(index, embeddings) ==
    IF index.kind = "faiss"
    THEN [index EXCEPT !.data = index.data \o embeddings]
    ELSE [index EXCEPT !.data = Append(index.data, embeddings[1])]

\* a candidate of a search: a score and a 0-based position
Cand(score, idx) == [score |-> score, idx |-> idx]

\* mutant: the candidates come worst first
Before_Ascending(a, b, tieHigh) ==
    \/ GT(b.score, a.score)
    \/ /\ EQ(a.score, b.score)
       /\ IF tieHigh THEN a.idx > b.idx ELSE a.idx < b.idx

\* (score, idx) tuples in descending order; equal scores by descending idx
\* when tieHigh (list.sort(reverse=True) on tuples), by ascending idx otherwise
Before(a, b, tieHigh) ==
    \/ GT(a.score, b.score)
    \/ /\ EQ(a.score, b.score)
       /\ IF tieHigh THEN a.idx > b.idx ELSE a.idx < b.idx

\* mutant: the candidates are left in the order of their positions
RECURSIVE SortCands_ByPosition(_, _)
SortCands_ByPosition(S, tieHigh) ==
    IF S = {} THEN <<>>
    ELSE LET first == CHOOSE a \in S : \A b \in S : a.idx <= b.idx
         IN  <<first>> \o SortCands_ByPosition(S \ {first}, tieHigh)

RECURSIVE SortCands(_, _)
SortCands(S, tieHigh) ==
    IF S = {} THEN <<>>
    ELSE LET first == CHOOSE a \in S : \A b \in S \ {a} : Before(a, b, tieHigh)
         IN  <<first>> \o SortCands(S \ {first}, tieHigh)

\* seq[:n] for n >= 0
Take(seq, n) == SubSeq(seq, 1, IF n < Len(seq) THEN n ELSE Len(seq))

\* index.search(query, k) raises: the library asserts the query's length
IndexSearchRaises(index, q) == index.kind = "faiss" /\ q.dim # index.dimension

\* index.search(query, k): the candidates, best first.
\*   faiss: inner product, k entries, missing neighbours reported as label -1;
\*   MockFaiss: cosine over the vectors of the query's length, [(0.0, 0)] when
\*   the index is empty.
IndexSearch(index, q, k) ==
    IF index.kind = "faiss"
    THEN LET S == {Cand(Rat(Dot(q, index.data[i]), UnitSq), i - 1) :
                      i \in 1..Len(index.data)}
             found == Take(SortCands(S, FALSE), k)
         IN  found \o [j \in 1..(k - Len(found)) |-> Cand(Rat(-1, 0), -1)]
    ELSE IF index.data = <<>>
         THEN <<Cand(Rat(0, 1), 0)>>
         ELSE LET S == {Cand(Rat(Dot(q, index.data[i]), Norm(q) * Norm(index.data[i])), i - 1) :
                           i \in {j \in 1..Len(index.data) : index.data[j].dim = q.dim}}
              IN  Take(SortCands(S, TRUE), k)

\* ---------------------------------------------------------------- store
\* dict.get(key, default)
Get(d, key, default) == IF key \in DOMAIN d THEN d[key] ELSE default

\* list.index(x): the 1-based position of the first occurrence
IndexOf(seq, x) == CHOOSE i \in 1..Len(seq) : seq[i] = x /\ \A j \in 1..(i - 1) : seq[j] # x

\* the elements of a list
Range(seq) == {seq[i] : i \in 1..Len(seq)}

\* seq[idx] for a Python position idx (0-based; negative counts from the end)
PyAt(seq, idx) == IF idx < 0 THEN seq[Len(seq) + idx + 1] ELSE seq[idx + 1]

Min2(a, b) == IF a < b THEN a ELSE b

\* the outcome of a method call: the object afterwards, the value returned
\* and the exception raised ("none" when it returned)
Outcome(self, ret, exc) == [self |-> self, ret |-> ret, exc |-> exc]

\* AdvancedMemorySystem.__init__: hasModel is whether SentenceTransformer loaded
AdvancedMemorySystem(kind, hasModel) ==
    LET dimension == IF hasModel THEN ModelDimension ELSE FallbackDimension
    IN  [ model      |-> hasModel,
          dimension  |-> dimension,
          index      |-> IndexFlatIP(kind, dimension),
          memories   |-> <<>>,
          metadata   |-> <<>>,
          memory_ids |-> <<>>,
          next_id    |-> 0,
          deleted_ids |-> {} ]

\* the metadata add_memory stores: the caller's dict (None is the empty dict)
\* with timestamp defaulted to time.time() and created_at set
StampedMetadata(metadata, now) ==
    ("created_at" :> now) @@ ("timestamp" :> Get(metadata, "timestamp", now)) @@ metadata

\* the metadata delete_memory_by_id leaves in a slot
DeletionMarker(now) == [deleted |-> TRUE, deleted_at |-> now, deleted_at_str |-> now]

\* mutant: only the empty string is rejected (not text)
IsBlank_EmptyOnly(text) == text = <<>>

\* add_memory's rejection test: not text.strip()
IsBlank(text) == Strip(text) = <<>>

\* mutant: the new record is numbered by the length of the id list
NewMemoryId_FromLength(self) == Len(self.memory_ids)

\* the id add_memory gives the new record: memory_id = self.next_id
NewMemoryId(self) == self.next_id

\* add_memory(text, metadata); fake is the row np.random.rand yields
add_memory(self, text, metadata, now, fake) ==
    IF IsBlank(text)
    THEN Outcome(self, -1, "none")
    ELSE LET embedding == IF self.model THEN <<Encode(text)>> ELSE fake
         IN  IF IndexAddRaises(self.index, embedding)
             THEN Outcome(self, -1, "AssertionError")
             ELSE Outcome([self EXCEPT
                              !.index      = IndexAdd(self.index, embedding),
                              !.memories   = Append(self.memories, text),
                              !.metadata   = Append(self.metadata, StampedMetadata(metadata, now)),
                              !.memory_ids = Append(self.memory_ids, NewMemoryId(self)),
                              !.next_id    = self.next_id + 1],
                          NewMemoryId(self), "none")

\* mutant: an id that is already soft-deleted counts as absent
HasId_ActiveOnly(self, memory_id) ==
    memory_id \in Range(self.memory_ids) /\ memory_id \notin self.deleted_ids

\* whether self.memory_ids.index(memory_id) finds the id (it raises ValueError
\* otherwise)
HasId(self, memory_id) == memory_id \in Range(self.memory_ids)

\* mutant: the id itself is taken for the position
PositionOf_IdAsPosition(self, memory_id) == memory_id + 1

\* index_position = self.memory_ids.index(memory_id), as a 1-based position
PositionOf(self, memory_id) == IndexOf(self.memory_ids, memory_id)

\* delete_memory_by_id(memory_id)
delete_memory_by_id(self, memory_id, now) ==
    IF ~HasId(self, memory_id)
    THEN Outcome(self, FALSE, "none")
    ELSE LET index_position == PositionOf(self, memory_id)
             s1 == [self EXCEPT !.deleted_ids = self.deleted_ids \cup {memory_id}]
         IN  IF index_position > Len(self.memories)
             THEN Outcome(s1, FALSE, "IndexError")
             ELSE LET s2 == [s1 EXCEPT !.memories[index_position] = DELETED]
                  IN  IF index_position > Len(self.metadata)
                      THEN Outcome(s2, FALSE, "IndexError")
                      ELSE Outcome([s2 EXCEPT !.metadata[index_position] = DeletionMarker(now)],
                                   TRUE, "none")

\* search_memories raises: the only call in it that can is index.search
SearchRaises(self, query) ==
    /\ Len(self.memories) > 0
    /\ self.model
    /\ IndexSearchRaises(self.index, Encode(query))

\* mutant: the index is asked in fallback mode too
SearchCandidates_IndexAlways(self, query, top_k) ==
    IndexSearch(self.index, Encode(query), Min2(top_k * 2, Len(self.memories)))

\* mutant: the index is asked for no more neighbours than there are records
\* that are not soft-deleted
SearchCandidates_AsksActive(self, query, top_k) ==
    LET active == {j \in 1..Len(self.memories) :
                      /\ self.memory_ids[j] \notin self.deleted_ids
                      /\ self.memories[j] # DELETED}
    IN  IF self.model
        THEN IndexSearch(self.index, Encode(query), Min2(top_k * 2, Cardinality(active)))
        ELSE Take(SortCands({Cand(_simple_similarity(query, self.memories[i]), i - 1) :
                                i \in active}, TRUE),
                  Min2(top_k * 2, Cardinality(active)))

\* the (score, position) pairs search_memories iterates over, in order
SearchCandidates(self, query, top_k) ==
    IF self.model
    THEN IndexSearch(self.index, Encode(query), Min2(top_k * 2, Len(self.memories)))
    ELSE LET similarities ==
                 {Cand(_simple_similarity(query, self.memories[i]), i - 1) :
                     i \in {j \in 1..Len(self.memories) :
                               /\ self.memory_ids[j] \notin self.deleted_ids
                               /\ self.memories[j] # DELETED}}
             sorted == SortCands(similarities, TRUE)
         IN  Take(sorted, Min2(top_k * 2, Len(sorted)))

\* one entry of the list search_memories returns
SearchResult(self, cand) ==
    [ id       |-> PyAt(self.memory_ids, cand.idx),
      text     |-> PyAt(self.memories, cand.idx),
      score    |-> cand.score,
      metadata |-> PyAt(self.metadata, cand.idx),
      index    |-> cand.idx ]

\* mutant: the loop of search_memories skips nothing
IsExcluded_Never(self, idx) == FALSE

\* the slot at position idx is skipped: its id is soft-deleted or its text is
\* the deletion sentinel
IsExcluded(self, idx) ==
    \/ PyAt(self.memory_ids, idx) \in self.deleted_ids
    \/ PyAt(self.memories, idx) = DELETED

\* mutant: the threshold is not applied
Accepts_Any(score, threshold) == TRUE

\* mutant: a score equal to the threshold is turned down
Accepts_Above(score, threshold) == GT(score, threshold)

\* the acceptance test of search_memories: score >= threshold
Accepts(score, threshold) == GE(score, threshold)

\* the loop of search_memories over the candidates, from the i-th on
RECURSIVE CollectResults(_, _, _, _, _, _)
CollectResults(self, cands, i, results, top_k, threshold) ==
    IF i > Len(cands) THEN results
    ELSE LET c == cands[i]
         IN  IF c.idx >= Len(self.memories)
             THEN CollectResults(self, cands, i + 1, results, top_k, threshold)
             ELSE IF IsExcluded(self, c.idx)
                  THEN CollectResults(self, cands, i + 1, results, top_k, threshold)
                  ELSE IF Accepts(c.score, threshold)
                       THEN LET more == Append(results, SearchResult(self, c))
                            IN  IF Len(more) >= top_k
                                THEN more
                                ELSE CollectResults(self, cands, i + 1, more, top_k, threshold)
                       ELSE CollectResults(self, cands, i + 1, results, top_k, threshold)

\* search_memories(query, top_k, threshold)
search_memories(self, query, top_k, threshold) ==
    IF Len(self.memories) = 0
    THEN <<>>
    ELSE CollectResults(self, SearchCandidates(self, query, top_k), 1, <<>>, top_k, threshold)

\* the elements of seq at the positions in P, in order
RECURSIVE Pick(_, _, _)
Pick(seq, P, i) ==
    IF i > Len(seq) THEN <<>>
    ELSE (IF i \in P THEN <<seq[i]>> ELSE <<>>) \o Pick(seq, P, i + 1)

\* the positions cleanup_deleted_memories keeps (zip stops at the shortest list)
ValidPositions(self) ==
    {i \in 1..Min2(Len(self.memories), Min2(Len(self.metadata), Len(self.memory_ids))) :
        /\ self.memory_ids[i] \notin self.deleted_ids
        /\ self.memories[i] # DELETED}

\* mutant: cleanup_deleted_memories rebuilds whether or not anything is deleted
NothingToClean_Never(self) == FALSE

\* cleanup_deleted_memories returns at once: not self.deleted_ids
NothingToClean(self) == self.deleted_ids = {}

\* cleanup_deleted_memories() up to the re-embedding (lines 171 to 187): the
\* lists hold the survivors, deleted_ids is cleared and the index is a new one
Filtered(self) ==
    LET valid == ValidPositions(self)
    IN  [self EXCEPT
            !.memories    = Pick(self.memories, valid, 1),
            !.metadata    = Pick(self.metadata, valid, 1),
            !.memory_ids  = Pick(self.memory_ids, valid, 1),
            !.deleted_ids = {},
            !.index       = IndexFlatIP(self.index.kind, self.dimension)]

\* cleanup_deleted_memories(); fakes are the rows np.random.rand yields
cleanup_deleted_memories(self, fakes) ==
    IF NothingToClean(self)
    THEN self
    ELSE LET Rebuilt(kept) ==
                 LET embeddings == IF kept.model
                                   THEN [i \in 1..Len(kept.memories) |-> Encode(kept.memories[i])]
                                   ELSE Take(fakes, Len(kept.memories))
                 IN  IF kept.memories # <<>>
                     THEN [kept EXCEPT !.index = IndexAdd(kept.index, embeddings)]
                     ELSE kept
         IN  Rebuilt(Filtered(self))

\* the loop of delete_memories_by_content over the search results
RECURSIVE DeleteFound(_, _, _, _, _)
DeleteFound(self, similar, i, deleted, now) ==
    IF i > Len(similar) THEN Outcome(self, deleted, "none")
    ELSE LET memory_id == PyAt(self.memory_ids, similar[i].index)
             o == delete_memory_by_id(self, memory_id, now)
         IN  IF o.exc # "none"
             THEN Outcome(o.self, deleted, o.exc)
             ELSE DeleteFound(o.self, similar, i + 1,
                              IF o.ret THEN Append(deleted, memory_id) ELSE deleted, now)

\* mutant: every record the search can find is deleted, however many
delete_memories_by_content_Unlimited(self, search_text, threshold, now) ==
    DeleteFound(self, search_memories(self, search_text, Len(self.memories), threshold),
                1, <<>>, now)

\* delete_memories_by_content(search_text, threshold)
delete_memories_by_content(self, search_text, threshold, now) ==
    DeleteFound(self, search_memories(self, search_text, ContentTopK, threshold), 1, <<>>, now)

\* the loop of delete_recent_memories over zip(memory_ids, metadata)
RECURSIVE DeleteNewer(_, _, _, _, _)
DeleteNewer(self, cutoff_time, i, deleted, now) ==
    IF i > Min2(Len(self.memory_ids), Len(self.metadata))
    THEN Outcome(self, deleted, "none")
    ELSE LET memory_id == self.memory_ids[i]
         IN  IF memory_id \in self.deleted_ids
             THEN DeleteNewer(self, cutoff_time, i + 1, deleted, now)
             ELSE IF Get(self.metadata[i], "timestamp", 0) > cutoff_time
                  THEN LET o == delete_memory_by_id(self, memory_id, now)
                       IN  IF o.exc # "none"
                           THEN Outcome(o.self, deleted, o.exc)
                           ELSE DeleteNewer(o.self, cutoff_time, i + 1,
                                            IF o.ret THEN Append(deleted, memory_id) ELSE deleted,
                                            now)
                  ELSE DeleteNewer(self, cutoff_time, i + 1, deleted, now)

\* mutant: a record stamped at the cutoff to the second counts as recent
delete_recent_memories_FromCutoff(self, hours, now) ==
    DeleteNewer(self, now - hours * SecondsPerHour - 1, 1, <<>>, now)

\* delete_recent_memories(hours)
delete_recent_memories(self, hours, now) ==
    DeleteNewer(self, now - hours * SecondsPerHour, 1, <<>>, now)

\* mutant: total counts every id ever handed out
get_memory_stats_EverAdded(self) ==
    [ total          |-> self.next_id,
      active         |-> self.next_id - Cardinality(self.deleted_ids),
      deleted        |-> Cardinality(self.deleted_ids),
      cleanup_needed |-> Cardinality(self.deleted_ids) > 0 ]

\* get_memory_stats()
get_memory_stats(self) ==
    LET total_memories == Len(self.memory_ids)
        deleted_memories == Cardinality(self.deleted_ids)
    IN  [ total          |-> total_memories,
          active         |-> total_memories - deleted_memories,
          deleted        |-> deleted_memories,
          cleanup_needed |-> deleted_memories > 0 ]

\* ---------------------------------------------------------- persistence
\* a file that does not exist / a file holding content
Absent == <<>>
File(content) == <<content>>
\* a file that holds something neither library can read back
Corrupt == File([unreadable |-> TRUE])

\* faiss.write_index: the library writes the whole index, MockFaiss pickles
\* index.data alone
write_index(index) ==
    IF index.kind = "faiss"
    THEN File([dimension |-> index.dimension, data |-> index.data])
    ELSE File([data |-> index.data])

\* faiss.read_index: MockFaiss builds IndexFlatIP(768) around the pickled data
\* and keeps it empty when the file cannot be unpickled; the library raises on
\* a file it cannot read (see load_from_disk)
read_index(kind, file) ==
    IF kind = "faiss"
    THEN [kind |-> kind, dimension |-> file[1].dimension, data |-> file[1].data]
    ELSE IF file = Corrupt
         THEN IndexFlatIP(kind, MockReadDimension)
         ELSE [IndexFlatIP(kind, MockReadDimension) EXCEPT !.data = file[1].data]

\* mutant: the set of soft-deleted ids is not written
PickledBundle_NoDeleted(self) ==
    [ memories    |-> self.memories,
      metadata    |-> self.metadata,
      memory_ids  |-> self.memory_ids,
      next_id     |-> self.next_id,
      deleted_ids |-> {} ]

\* the dict save_to_disk pickles
PickledBundle(self) ==
    [ memories    |-> self.memories,
      metadata    |-> self.metadata,
      memory_ids  |-> self.memory_ids,
      next_id     |-> self.next_id,
      deleted_ids |-> self.deleted_ids ]

\* save_to_disk(filepath): the two files afterwards
save_to_disk(self, files) ==
    [ index |-> write_index(self.index),
      pkl   |-> File(PickledBundle(self)) ]

\* mutant: what the reads raise leaves load_from_disk
load_from_disk_Uncaught(self, files) ==
    LET Unpickled(s1) ==
            IF files.pkl = Absent THEN Outcome(s1, 0, "none")
            ELSE IF files.pkl = Corrupt THEN Outcome(s1, 0, "Exception")
            ELSE Outcome([s1 EXCEPT
                             !.memories    = files.pkl[1].memories,
                             !.metadata    = files.pkl[1].metadata,
                             !.memory_ids  = files.pkl[1].memory_ids,
                             !.next_id     = files.pkl[1].next_id,
                             !.deleted_ids = files.pkl[1].deleted_ids], 0, "none")
    IN  IF files.index = Absent THEN Unpickled(self)
        ELSE IF self.index.kind = "faiss" /\ files.index = Corrupt
             THEN Outcome(self, 0, "Exception")
             ELSE Unpickled([self EXCEPT !.index = read_index(self.index.kind, files.index)])

\* load_from_disk(filepath): the index file is read first, then the pickled
\* bundle; whatever a read raises (faiss.read_index or pickle.load on a file
\* it cannot read) ends the call inside its try/except, what was assigned
\* before staying assigned
load_from_disk(self, files) ==
    LET Unpickled(s1) ==
            IF files.pkl = Absent \/ files.pkl = Corrupt THEN Outcome(s1, 0, "none")
            ELSE Outcome([s1 EXCEPT
                             !.memories    = files.pkl[1].memories,
                             !.metadata    = files.pkl[1].metadata,
                             !.memory_ids  = files.pkl[1].memory_ids,
                             !.next_id     = files.pkl[1].next_id,
                             !.deleted_ids = files.pkl[1].deleted_ids], 0, "none")
    IN  IF files.index = Absent THEN Unpickled(self)
        ELSE IF self.index.kind = "faiss" /\ files.index = Corrupt
             THEN Outcome(self, 0, "none")
             ELSE Unpickled([self EXCEPT !.index = read_index(self.index.kind, files.index)])

\* no file has been written yet
NoFiles == [index |-> Absent, pkl |-> Absent]

\* ----------------------------------------------------------- substrings
\* Optional[...]: None, or the one value
None == <<>>
Some(v) == <<v>>

\* the text has p at position i (1-based)
MatchAt(text, p, i) ==
    /\ i >= 1
    /\ i + Len(p) - 1 <= Len(text)
    /\ SubSeq(text, i, i + Len(p) - 1) = p

\* p in text
Contains(text, p) == \E i \in 1..(Len(text) + 1) : MatchAt(text, p, i)

\* text.find(p) + 1: the position of the first occurrence of p, 0 when none
Find(text, p) ==
    IF Contains(text, p)
    THEN CHOOSE i \in 1..(Len(text) + 1) :
            MatchAt(text, p, i) /\ \A j \in 1..(i - 1) : ~MatchAt(text, p, j)
    ELSE 0

\* text.startswith(p), text.endswith(p)
StartsWith(text, p) == MatchAt(text, p, 1)
EndsWith(text, p) == MatchAt(text, p, Len(text) - Len(p) + 1)

\* any(p in text for p in list)
ContainsAny(text, list) == \E i \in 1..Len(list) : Contains(text, list[i])

\* the position in the list of the first p with p in text, 0 when none
FirstContained(text, list) ==
    IF ContainsAny(text, list)
    THEN CHOOSE i \in 1..Len(list) :
            Contains(text, list[i]) /\ \A j \in 1..(i - 1) : ~Contains(text, list[j])
    ELSE 0

\* text.strip(chars)
RECURSIVE StripChars(_, _)
StripChars(text, chars) ==
    IF text # <<>> /\ Head(text) \in chars
    THEN StripChars(Tail(text), chars)
    ELSE IF text # <<>> /\ text[Len(text)] \in chars
         THEN StripChars(SubSeq(text, 1, Len(text) - 1), chars)
         ELSE text

\* ---------------------------------------------------------- rule tables
\* self.personal_indicators, in the dict's order: each category and its phrases
\*   身分: 我叫  我的名字  我是  我的職業  我在  我住在  我來自
\*   偏好: 我喜歡  我不喜歡  我愛  我討厭  我傾向  我偏好
\*   狀態: 我今年  歲  我現在  我的生日  我的年齡
\*   經驗: 我以前  我曾經  我記得  我經歷過  我做過
\*   計畫: 我打算  我計劃  我想要  我希望  提醒我  記住我要
\*   重要資訊: 這很重要  別忘記  要記住  記下來  存起來
personal_indicators ==
    <<
      [ category |-> <<"u8eab", "u5206">>,
        indicators |-> <<
          <<"u6211", "u53eb">>, <<"u6211", "u7684", "u540d", "u5b57">>, <<"u6211", "u662f">>,
          <<"u6211", "u7684", "u8077", "u696d">>, <<"u6211", "u5728">>,
          <<"u6211", "u4f4f", "u5728">>, <<"u6211", "u4f86", "u81ea">> >> ],
      [ category |-> <<"u504f", "u597d">>,
        indicators |-> <<
          <<"u6211", "u559c", "u6b61">>, <<"u6211", "u4e0d", "u559c", "u6b61">>,
          <<"u6211", "u611b">>, <<"u6211", "u8a0e", "u53ad">>, <<"u6211", "u50be", "u5411">>,
          <<"u6211", "u504f", "u597d">> >> ],
      [ category |-> <<"u72c0", "u614b">>,
        indicators |-> <<
          <<"u6211", "u4eca", "u5e74">>, <<"u6b72">>, <<"u6211", "u73fe", "u5728">>,
          <<"u6211", "u7684", "u751f", "u65e5">>, <<"u6211", "u7684", "u5e74", "u9f61">> >> ],
      [ category |-> <<"u7d93", "u9a57">>,
        indicators |-> <<
          <<"u6211", "u4ee5", "u524d">>, <<"u6211", "u66fe", "u7d93">>,
          <<"u6211", "u8a18", "u5f97">>, <<"u6211", "u7d93", "u6b77", "u904e">>,
          <<"u6211", "u505a", "u904e">> >> ],
      [ category |-> <<"u8a08", "u756b">>,
        indicators |-> <<
          <<"u6211", "u6253", "u7b97">>, <<"u6211", "u8a08", "u5283">>,
          <<"u6211", "u60f3", "u8981">>, <<"u6211", "u5e0c", "u671b">>,
          <<"u63d0", "u9192", "u6211">>, <<"u8a18", "u4f4f", "u6211", "u8981">> >> ],
      [ category |-> <<"u91cd", "u8981", "u8cc7", "u8a0a">>,
        indicators |-> <<
          <<"u9019", "u5f88", "u91cd", "u8981">>, <<"u5225", "u5fd8", "u8a18">>,
          <<"u8981", "u8a18", "u4f4f">>, <<"u8a18", "u4e0b", "u4f86">>,
          <<"u5b58", "u8d77", "u4f86">> >> ] >>

\* self.query_indicators:
\*   什麼是  怎麼  為什麼  在哪裡  什麼時候  誰是  告訴我  解釋  說明  幫我  能不能  可以嗎  你會  你是  你的  你能  你可以  你知道
query_indicators ==
    <<
      <<"u4ec0", "u9ebc", "u662f">>, <<"u600e", "u9ebc">>, <<"u70ba", "u4ec0", "u9ebc">>,
      <<"u5728", "u54ea", "u88e1">>, <<"u4ec0", "u9ebc", "u6642", "u5019">>,
      <<"u8ab0", "u662f">>, <<"u544a", "u8a34", "u6211">>, <<"u89e3", "u91cb">>,
      <<"u8aaa", "u660e">>, <<"u5e6b", "u6211">>, <<"u80fd", "u4e0d", "u80fd">>,
      <<"u53ef", "u4ee5", "u55ce">>, <<"u4f60", "u6703">>, <<"u4f60", "u662f">>,
      <<"u4f60", "u7684">>, <<"u4f60", "u80fd">>, <<"u4f60", "u53ef", "u4ee5">>,
      <<"u4f60", "u77e5", "u9053">> >>

\* self.explicit_memory_requests:
\*   記住  記下  記錄  保存  儲存  記住這個  別忘記  要記得  remember  save this  keep in mind
explicit_memory_requests ==
    <<
      <<"u8a18", "u4f4f">>, <<"u8a18", "u4e0b">>, <<"u8a18", "u9304">>, <<"u4fdd", "u5b58">>,
      <<"u5132", "u5b58">>, <<"u8a18", "u4f4f", "u9019", "u500b">>,
      <<"u5225", "u5fd8", "u8a18">>, <<"u8981", "u8a18", "u5f97">>,
      <<"r", "e", "m", "e", "m", "b", "e", "r">>,
      <<"s", "a", "v", "e", " ", "t", "h", "i", "s">>,
      <<"k", "e", "e", "p", " ", "i", "n", " ", "m", "i", "n", "d">> >>

\* question_starters of _is_query:
\*   什麼  怎麼  為什麼  在哪  何時  誰  哪個  哪裡
question_starters ==
    <<
      <<"u4ec0", "u9ebc">>, <<"u600e", "u9ebc">>, <<"u70ba", "u4ec0", "u9ebc">>,
      <<"u5728", "u54ea">>, <<"u4f55", "u6642">>, <<"u8ab0">>, <<"u54ea", "u500b">>,
      <<"u54ea", "u88e1">> >>

\* question_patterns of _is_query:
\*   嗎？  呢？  吧？  ？  嗎  呢
question_patterns ==
    <<
      <<"u55ce", "uff1f">>, <<"u5462", "uff1f">>, <<"u5427", "uff1f">>, <<"uff1f">>, <<"u55ce">>,
      <<"u5462">> >>

\* first_person_patterns of _is_declarative_statement:
\*   我  我的  我在  我會  我有
first_person_patterns ==
    <<
      <<"u6211">>, <<"u6211", "u7684">>, <<"u6211", "u5728">>, <<"u6211", "u6703">>,
      <<"u6211", "u6709">> >>

\* the endings _is_declarative_statement takes for a question:
\*   ？  ?  嗎  呢  吧
question_endings ==
    <<
      <<"uff1f">>, <<"?">>, <<"u55ce">>, <<"u5462">>, <<"u5427">> >>

\* action_verbs of _is_declarative_statement:
\*   是  在  有  做  喜歡  討厭  住  工作  學習
action_verbs ==
    <<
      <<"u662f">>, <<"u5728">>, <<"u6709">>, <<"u505a">>, <<"u559c", "u6b61">>,
      <<"u8a0e", "u53ad">>, <<"u4f4f">>, <<"u5de5", "u4f5c">>, <<"u5b78", "u7fd2">> >>

\* future_indicators of _is_future_plan:
\*   打算  計劃  想要  希望  準備  將會  要  會  明天  下週  下個月  以後  等等  提醒我
future_indicators ==
    <<
      <<"u6253", "u7b97">>, <<"u8a08", "u5283">>, <<"u60f3", "u8981">>, <<"u5e0c", "u671b">>,
      <<"u6e96", "u5099">>, <<"u5c07", "u6703">>, <<"u8981">>, <<"u6703">>, <<"u660e", "u5929">>,
      <<"u4e0b", "u9031">>, <<"u4e0b", "u500b", "u6708">>, <<"u4ee5", "u5f8c">>,
      <<"u7b49", "u7b49">>, <<"u63d0", "u9192", "u6211">> >>

\* importance_indicators of _is_important_fact:
\*   重要  關鍵  必須  一定要  務必  千萬  特別  注意  記住  別忘了
importance_indicators ==
    <<
      <<"u91cd", "u8981">>, <<"u95dc", "u9375">>, <<"u5fc5", "u9808">>,
      <<"u4e00", "u5b9a", "u8981">>, <<"u52d9", "u5fc5">>, <<"u5343", "u842c">>,
      <<"u7279", "u5225">>, <<"u6ce8", "u610f">>, <<"u8a18", "u4f4f">>,
      <<"u5225", "u5fd8", "u4e86">> >>

\* the characters _check_explicit_memory_request strips from the content, ' ：:，,.。':
\*      ：  :  ，  ,  .  。
explicit_strip_chars ==
    {" ", "uff1a", ":", "uff0c", ",", ".", "u3002"}

\* self.deletion_keywords['explicit']:
\*   刪除  刪掉  移除  忘記  忘掉  清除  去掉  別記得  不要記得  取消記憶  delete  remove  forget  erase  clear
deletion_explicit ==
    <<
      <<"u522a", "u9664">>, <<"u522a", "u6389">>, <<"u79fb", "u9664">>, <<"u5fd8", "u8a18">>,
      <<"u5fd8", "u6389">>, <<"u6e05", "u9664">>, <<"u53bb", "u6389">>,
      <<"u5225", "u8a18", "u5f97">>, <<"u4e0d", "u8981", "u8a18", "u5f97">>,
      <<"u53d6", "u6d88", "u8a18", "u61b6">>, <<"d", "e", "l", "e", "t", "e">>,
      <<"r", "e", "m", "o", "v", "e">>, <<"f", "o", "r", "g", "e", "t">>,
      <<"e", "r", "a", "s", "e">>, <<"c", "l", "e", "a", "r">> >>

\* the words that make the scope 'all':
\*   全部  所有  all  everything
scope_all_words ==
    <<
      <<"u5168", "u90e8">>, <<"u6240", "u6709">>, <<"a", "l", "l">>,
      <<"e", "v", "e", "r", "y", "t", "h", "i", "n", "g">> >>

\* the words that make the scope 'recent':
\*   最近  recent  剛才  今天
scope_recent_words ==
    <<
      <<"u6700", "u8fd1">>, <<"r", "e", "c", "e", "n", "t">>, <<"u525b", "u624d">>,
      <<"u4eca", "u5929">> >>

\* the character class [關於about] of _extract_deletion_target:
\*   關  於  a  b  o  u  t
target_prefix_chars ==
    {"u95dc", "u65bc", "a", "b", "o", "u", "t"}

\* the character class [：:，,.。!！？?] of _extract_deletion_target:
\*   ：  :  ，  ,  .  。  !  ！  ？  ?
target_punctuation_chars ==
    {"uff1a", ":", "uff0c", ",", ".", "u3002", "!", "uff01", "uff1f", "?"}

\* the utterances process_input takes for the list command:
\*   列出記憶  list memories  顯示記憶  記憶列表
list_commands ==
    <<
      <<"u5217", "u51fa", "u8a18", "u61b6">>,
      <<"l", "i", "s", "t", " ", "m", "e", "m", "o", "r", "i", "e", "s">>,
      <<"u986f", "u793a", "u8a18", "u61b6">>, <<"u8a18", "u61b6", "u5217", "u8868">> >>

\* the utterances process_input takes for the stats command:
\*   記憶統計  memory stats  統計
stats_commands ==
    <<
      <<"u8a18", "u61b6", "u7d71", "u8a08">>,
      <<"m", "e", "m", "o", "r", "y", " ", "s", "t", "a", "t", "s">>, <<"u7d71", "u8a08">> >>

\* self.deletion_keywords['specific_patterns']: a literal, then .* and, for some,
\* a closing literal
\*   刪除.*記憶  忘記我說過.*  不要記得.*  清除.*資訊  刪掉.*內容  忘記我的.*
deletion_specific_patterns ==
    <<
      [ head |-> <<"u522a", "u9664">>, any |-> TRUE, tail |-> <<"u8a18", "u61b6">> ],
      [ head |-> <<"u5fd8", "u8a18", "u6211", "u8aaa", "u904e">>, any |-> TRUE, tail |-> <<>> ],
      [ head |-> <<"u4e0d", "u8981", "u8a18", "u5f97">>, any |-> TRUE, tail |-> <<>> ],
      [ head |-> <<"u6e05", "u9664">>, any |-> TRUE, tail |-> <<"u8cc7", "u8a0a">> ],
      [ head |-> <<"u522a", "u6389">>, any |-> TRUE, tail |-> <<"u5167", "u5bb9">> ],
      [ head |-> <<"u5fd8", "u8a18", "u6211", "u7684">>, any |-> TRUE, tail |-> <<>> ] >>

\* ------------------------------------------------------- trigger detector
\* _is_query(text)
_is_query(text) ==
    \/ \E i \in 1..Len(question_starters) : StartsWith(text, question_starters[i])
    \/ \E i \in 1..Len(question_patterns) : EndsWith(text, question_patterns[i])
    \/ ContainsAny(text, query_indicators)

\* _check_explicit_memory_request(text): for the first keyword of the list the
\* text contains, what follows its first occurrence, stripped, or the whole
\* text when nothing is left
_check_explicit_memory_request(text) ==
    LET k == FirstContained(text, explicit_memory_requests)
    IN  IF k = 0 THEN None
        ELSE LET keyword == explicit_memory_requests[k]
                 rest == SubSeq(text, Find(text, keyword) + Len(keyword), Len(text))
                 content == StripChars(rest, explicit_strip_chars)
             IN  Some(IF content # <<>> THEN content ELSE text)

\* confidence = 0.85 if category in ['身分', '偏好'] else 0.75
PersonalConfidence(category) ==
    IF category \in {personal_indicators[1].category, personal_indicators[2].category}
    THEN Rat(85, 100)
    ELSE Rat(75, 100)

\* _check_personal_info(text): the first category, in the dict's order, one of
\* whose phrases the text contains
_check_personal_info(text) ==
    IF \E c \in 1..Len(personal_indicators) : ContainsAny(text, personal_indicators[c].indicators)
    THEN LET c == CHOOSE c \in 1..Len(personal_indicators) :
                     /\ ContainsAny(text, personal_indicators[c].indicators)
                     /\ \A d \in 1..(c - 1) : ~ContainsAny(text, personal_indicators[d].indicators)
             category == personal_indicators[c].category
         IN  Some([type |-> <<"personal_">> \o category,
                   confidence |-> PersonalConfidence(category)])
    ELSE None

\* _is_declarative_statement(text)
_is_declarative_statement(text) ==
    LET has_first_person == ContainsAny(text, first_person_patterns)
        is_not_question == ~ \E i \in 1..Len(question_endings) : EndsWith(text, question_endings[i])
        has_action == ContainsAny(text, action_verbs)
    IN  has_first_person /\ is_not_question /\ has_action

\* _is_future_plan(text)
_is_future_plan(text) == ContainsAny(text, future_indicators)

\* _is_important_fact(text)
_is_important_fact(text) == ContainsAny(text, importance_indicators)

\* _analyze_sentence_structure(text)
_analyze_sentence_structure(text) ==
    IF _is_declarative_statement(text)
    THEN Some([type |-> <<"declarative">>, confidence |-> Rat(65, 100)])
    ELSE IF _is_future_plan(text)
         THEN Some([type |-> <<"plan">>, confidence |-> Rat(8, 10)])
         ELSE IF _is_important_fact(text)
              THEN Some([type |-> <<"important_fact">>, confidence |-> Rat(7, 10)])
              ELSE None

\* mutant: the explicit keywords are looked for before the query patterns
IsQueryFirst_ExplicitFirst(text) ==
    _is_query(text) /\ _check_explicit_memory_request(text) = None

\* step 1 of detect_memory_request: the text is taken for a query before any
\* other rule is tried
IsQueryFirst(text) == _is_query(text)

\* detect_memory_request(text): (should_remember, memory_type,
\* extracted_content, confidence)
detect_memory_request(raw) ==
    LET text == Strip(raw)
        explicit_match == _check_explicit_memory_request(text)
        personal_match == _check_personal_info(text)
        structural_match == _analyze_sentence_structure(text)
    IN  IF IsQueryFirst(text)
        THEN <<FALSE, <<"query">>, None, Rat(9, 10)>>
        ELSE IF explicit_match # None /\ explicit_match[1] # <<>>
             THEN <<TRUE, <<"explicit">>, explicit_match, Rat(95, 100)>>
             ELSE IF personal_match # None
                  THEN <<TRUE, personal_match[1].type, Some(text), personal_match[1].confidence>>
                  ELSE IF structural_match # None
                       THEN <<TRUE, structural_match[1].type, Some(text),
                              structural_match[1].confidence>>
                       ELSE <<FALSE, <<"none">>, None, Rat(0, 1)>>

\* ------------------------------------------------------ deletion detector
\* self.deletion_patterns: the explicit keywords, then the specific patterns;
\* a compiled pattern is a literal (head), optionally followed by .* (any)
\* and a closing literal (tail)
deletion_patterns ==
    [i \in 1..Len(deletion_explicit) |->
        [head |-> deletion_explicit[i], any |-> FALSE, tail |-> <<>>]]
        \o deletion_specific_patterns

\* the end of the line position i is on: . does not match a newline
LineEnd(text, i) ==
    IF \E j \in i..Len(text) : text[j] = "\n"
    THEN (CHOOSE j \in i..Len(text) : text[j] = "\n" /\ \A k \in i..(j - 1) : text[k] # "\n") - 1
    ELSE Len(text)

\* where a match of the pattern that starts at position i ends (the number of
\* symbols up to its end), 0 when none starts there; .* is greedy
MatchEndAt(text, p, i) ==
    IF ~MatchAt(text, p.head, i) THEN 0
    ELSE LET headEnd == i + Len(p.head) - 1
             lineEnd == LineEnd(text, headEnd + 1)
             tails == {j \in (headEnd + 1)..lineEnd :
                          j + Len(p.tail) - 1 <= lineEnd /\ MatchAt(text, p.tail, j)}
         IN  IF ~p.any THEN headEnd
             ELSE IF p.tail = <<>> THEN lineEnd
             ELSE IF tails = {} THEN 0
             ELSE (CHOOSE j \in tails : \A k \in tails : k <= j) + Len(p.tail) - 1

\* pattern.search(text).end() under re.IGNORECASE: the end of the leftmost
\* match, 0 when the pattern matches nowhere
SearchEnd(text, p) ==
    LET folded == Lower(text)
        starts == {i \in 1..Len(text) : MatchEndAt(folded, p, i) # 0}
    IN  IF starts = {} THEN 0
        ELSE MatchEndAt(folded, p, CHOOSE i \in starts : \A j \in starts : i <= j)

\* re.sub('^[chars]*', '', text): the leading symbols of the class removed
RECURSIVE DropLeading(_, _, _)
DropLeading(text, chars, ignoreCase) ==
    IF text # <<>> /\ (IF ignoreCase THEN LowerSym(Head(text)) ELSE Head(text)) \in chars
    THEN DropLeading(Tail(text), chars, ignoreCase)
    ELSE text

\* _extract_deletion_target(text, match), end being match.end()
_extract_deletion_target(text, end) ==
    LET remaining_text == Strip(SubSeq(text, end + 1, Len(text)))
        unprefixed == Strip(DropLeading(remaining_text, target_prefix_chars, TRUE))
        unpunctuated == Strip(DropLeading(unprefixed, target_punctuation_chars, FALSE))
    IN  IF unpunctuated # <<>> THEN Some(unpunctuated) ELSE None

\* mutant: the recency words are looked for before the words for everything
detect_deletion_request_RecentFirst(text) ==
    LET hits == {i \in 1..Len(deletion_patterns) : SearchEnd(text, deletion_patterns[i]) # 0}
        first == CHOOSE i \in hits : \A j \in hits : i <= j
    IN  [ is_deletion_request |-> hits # {},
          deletion_type       |-> IF hits # {} THEN "explicit" ELSE "none",
          target_content      |-> IF hits # {}
                                  THEN _extract_deletion_target(
                                           text, SearchEnd(text, deletion_patterns[first]))
                                  ELSE None,
          deletion_scope      |-> IF hits = {} THEN "none"
                                  ELSE IF ContainsAny(Lower(text), scope_recent_words)
                                       THEN "recent"
                                       ELSE IF ContainsAny(Lower(text), scope_all_words)
                                            THEN "all"
                                            ELSE "specific" ]

\* detect_deletion_request(text)
detect_deletion_request(text) ==
    IF \E i \in 1..Len(deletion_patterns) : SearchEnd(text, deletion_patterns[i]) # 0
    THEN LET first == CHOOSE i \in 1..Len(deletion_patterns) :
                         /\ SearchEnd(text, deletion_patterns[i]) # 0
                         /\ \A j \in 1..(i - 1) : SearchEnd(text, deletion_patterns[j]) = 0
         IN  [ is_deletion_request |-> TRUE,
               deletion_type       |-> "explicit",
               target_content      |-> _extract_deletion_target(
                                           text, SearchEnd(text, deletion_patterns[first])),
               deletion_scope      |-> IF ContainsAny(Lower(text), scope_all_words)
                                       THEN "all"
                                       ELSE IF ContainsAny(Lower(text), scope_recent_words)
                                            THEN "recent"
                                            ELSE "specific" ]
    ELSE [ is_deletion_request |-> FALSE,
           deletion_type       |-> "none",
           target_content      |-> None,
           deletion_scope      |-> "none" ]

\* ------------------------------------------------------------- utterances
\* what the user says in the turns of the chat:
\*   remember_a "remember a", remember_ab "remember A b", forget_ab "forget A b",
\*   forget_a "forget a", want_delete "我要刪除", delete_everything "delete everything",
\*   forget_recent "forget recent", list_memories "List memories",
\*   memory_stats "memory stats", what_is_your_name "What is your name?",
\*   dont_forget_ab "別忘記 A b"
Said ==
    [ dont_forget_ab    |-> <<"u5225", "u5fd8", "u8a18", " ", "A", " ", "b">>,
      remember_a        |-> <<"r", "e", "m", "e", "m", "b", "e", "r", " ", "a">>,
      remember_ab       |-> <<"r", "e", "m", "e", "m", "b", "e", "r", " ", "A", " ", "b">>,
      forget_ab         |-> <<"f", "o", "r", "g", "e", "t", " ", "A", " ", "b">>,
      forget_a          |-> <<"f", "o", "r", "g", "e", "t", " ", "a">>,
      want_delete       |-> <<"u6211", "u8981", "u522a", "u9664">>,
      delete_everything |-> <<"d", "e", "l", "e", "t", "e", " ",
                              "e", "v", "e", "r", "y", "t", "h", "i", "n", "g">>,
      forget_recent     |-> <<"f", "o", "r", "g", "e", "t", " ", "r", "e", "c", "e", "n", "t">>,
      list_memories     |-> <<"L", "i", "s", "t", " ", "m", "e", "m", "o", "r", "i", "e", "s">>,
      memory_stats      |-> <<"m", "e", "m", "o", "r", "y", " ", "s", "t", "a", "t", "s">>,
      what_is_your_name |-> <<"W", "h", "a", "t", " ", "i", "s", " ",
                              "y", "o", "u", "r", " ", "n", "a", "m", "e", "?">> ]

\* the utterances of the chat
ChatInputs == {Said[k] : k \in DOMAIN Said}

\* The detectors are pure functions of the text: what they return for the
\* utterances of the chat, as process_input hands them on (stripped)
DeletionInfo == [text \in {Strip(raw) : raw \in ChatInputs} |-> detect_deletion_request(text)]
MemoryRequest == [text \in {Strip(raw) : raw \in ChatInputs} |-> detect_memory_request(text)]

\* mutant: every utterance is taken for a request to delete what it says
DetectedDeletion_NoKeywordNeeded(text) ==
    [ is_deletion_request |-> TRUE,
      deletion_type       |-> "explicit",
      target_content      |-> IF Strip(text) # <<>> THEN Some(Strip(text)) ELSE None,
      deletion_scope      |-> "specific" ]

\* self.deletion_detector.detect_deletion_request(text)
DetectedDeletion(text) ==
    IF text \in DOMAIN DeletionInfo THEN DeletionInfo[text] ELSE detect_deletion_request(text)

\* self.trigger_detector.detect_memory_request(text)
DetectedMemoryRequest(text) ==
    IF text \in DOMAIN MemoryRequest THEN MemoryRequest[text] ELSE detect_memory_request(text)

\* --------------------------------------------------------- memory manager
\* the outcome of a call that calls into the store: the store afterwards, the
\* value returned, the exception raised and the calls it made, in order
Traced(self, ret, exc, calls) ==
    [self |-> self, ret |-> ret, exc |-> exc, calls |-> calls]

\* should_remember(user_input)
should_remember(user_input) ==
    LET detected == DetectedMemoryRequest(user_input)
    IN  [ should_remember   |-> detected[1],
          memory_type       |-> detected[2],
          extracted_content |-> detected[3],
          confidence        |-> detected[4],
          reason            |-> IF detected[1] THEN "semantic_analysis"
                                ELSE "query_or_no_trigger" ]

\* mutant: the memories are listed from the last to the first
build_context_with_memories_Reversed(user_input, relevant_memories) ==
    << [part |-> "system_prompt", text |-> <<>>] >>
    \o (IF relevant_memories # <<>>
        THEN << [part |-> "header", text |-> <<>>] >>
             \o [i \in 1..Len(relevant_memories) |->
                    [part |-> "bullet",
                     text |-> relevant_memories[Len(relevant_memories) + 1 - i].text]]
             \o << [part |-> "instruction", text |-> <<>>] >>
        ELSE << [part |-> "no_relevant_memory", text |-> <<>>] >>)
    \o << [part |-> "input", text |-> user_input] >>

\* build_context_with_memories(user_input, relevant_memories): the parts the
\* string is put together from, in order: the system prompt; the header, one
\* bullet with the text of each memory and the instruction to use them, or
\* the sentence that there is no relevant memory; the user's input
build_context_with_memories(user_input, relevant_memories) ==
    << [part |-> "system_prompt", text |-> <<>>] >>
    \o (IF relevant_memories # <<>>
        THEN << [part |-> "header", text |-> <<>>] >>
             \o [i \in 1..Len(relevant_memories) |->
                    [part |-> "bullet", text |-> relevant_memories[i].text]]
             \o << [part |-> "instruction", text |-> <<>>] >>
        ELSE << [part |-> "no_relevant_memory", text |-> <<>>] >>)
    \o << [part |-> "input", text |-> user_input] >>

\* the loop of _delete_all_memories over all_ids
RECURSIVE DeleteEach(_, _, _, _)
DeleteEach(self, all_ids, i, now) ==
    IF i > Len(all_ids) THEN Outcome(self, all_ids, "none")
    ELSE LET o == delete_memory_by_id(self, all_ids[i], now)
         IN  IF o.exc # "none"
             THEN Outcome(o.self, all_ids, o.exc)
             ELSE DeleteEach(o.self, all_ids, i + 1, now)

\* mutant: the loop stops after the first id
_delete_all_memories_FirstOnly(self, now) ==
    DeleteEach(self,
               Take(SelectSeq(self.memory_ids, LAMBDA mid : mid \notin self.deleted_ids), 1),
               1, now)

\* _delete_all_memories()
_delete_all_memories(self, now) ==
    DeleteEach(self,
               SelectSeq(self.memory_ids, LAMBDA mid : mid \notin self.deleted_ids),
               1, now)

\* mutant: the store is compacted after every recognised request
ShouldCleanup_Always(deleted_count) == TRUE

\* mutant: the store is never compacted after a deletion
ShouldCleanup_Never(deleted_count) == FALSE

\* process_deletion_request compacts: deleted_count > 0
ShouldCleanup(deleted_count) == deleted_count > 0

\* process_deletion_request(user_input); fakes are the rows np.random.rand
\* yields to the cleanup
process_deletion_request(self, user_input, now, fakes) ==
    LET Handle(deletion_info) ==
            LET scope == deletion_info.deletion_scope
                target == deletion_info.target_content
                called == IF scope = "all" THEN "_delete_all_memories"
                          ELSE IF scope = "recent" THEN "delete_recent_memories"
                          ELSE "delete_memories_by_content"
                Finish(o) ==
                    LET deleted_count == Len(o.ret)
                        message == IF scope = "all" THEN <<"all", deleted_count>>
                                   ELSE IF scope = "recent" THEN <<"recent", deleted_count>>
                                   ELSE <<"content", deleted_count, target[1]>>
                        answer == [ success       |-> TRUE,
                                    message       |-> message,
                                    deleted_count |-> deleted_count,
                                    deleted_ids   |-> o.ret ]
                    IN  IF o.exc # "none"
                        THEN Traced(o.self, [success |-> FALSE], o.exc, <<called>>)
                        ELSE IF ShouldCleanup(deleted_count)
                             THEN Traced(cleanup_deleted_memories(o.self, fakes), answer, "none",
                                         <<called, "cleanup_deleted_memories">>)
                             ELSE Traced(o.self, answer, "none", <<called>>)
            IN  IF ~deletion_info.is_deletion_request
                THEN Traced(self, [success |-> FALSE, message |-> <<"no_request">>], "none", <<>>)
                ELSE IF scope = "all"
                THEN Finish(_delete_all_memories(self, now))
                ELSE IF scope = "recent"
                THEN Finish(delete_recent_memories(self, RecentHours, now))
                ELSE IF target # None
                THEN Finish(delete_memories_by_content(self, target[1], Rat(7, 10), now))
                ELSE Traced(self, [success |-> FALSE, message |-> <<"no_target">>], "none", <<>>)
    IN  Handle(DetectedDeletion(user_input))

\* ---------------------------------------------------------------- chatbot
\* the outcome of a turn: the store and the files afterwards, the value
\* returned, the exception raised and the calls made, in order
Turn(self, files, ret, exc, calls) ==
    [self |-> self, files |-> files, ret |-> ret, exc |-> exc, calls |-> calls]

\* mutant: _save_memory does not catch the exception of save_to_disk
SaveRaises_Uncaught(fail) == fail # "none"

\* _save_memory lets the exception of save_to_disk out: never (except Exception)
SaveRaises(fail) == FALSE

\* _save_memory(): the files afterwards
_save_memory(self, files, fail) ==
    IF fail = "none" THEN save_to_disk(self, files)
    ELSE IF fail = "index" THEN files
    ELSE [files EXCEPT !.index = write_index(self.index)]

\* memory[:100] + "..." if len(memory) > 100 else memory
Shortened(memory) ==
    IF Len(memory) > ListTextLimit
    THEN SubSeq(memory, 1, ListTextLimit) \o <<".", ".", ".">>
    ELSE memory

\* _list_memories(limit=10)
_list_memories(self) ==
    LET n == Min2(Len(self.memory_ids), Min2(Len(self.memories), Len(self.metadata)))
        shown == SelectSeq([i \in 1..n |-> i],
                           LAMBDA i : /\ self.memory_ids[i] \notin self.deleted_ids
                                      /\ self.memories[i] # DELETED)
    IN  [k \in 1..Min2(Len(shown), ListLimit) |->
            [ id        |-> self.memory_ids[shown[k]],
              text      |-> Shortened(self.memories[shown[k]]),
              timestamp |-> Get(self.metadata[shown[k]], "created_at", "unknown"),
              type      |-> Get(self.metadata[shown[k]], "type", "unknown") ]]

\* the result dict process_input starts from
BlankResult ==
    [ has_response  |-> FALSE,
      response      |-> <<>>,
      memory_action |-> "none",
      memory_id     |-> None,
      deleted_count |-> 0,
      should_save   |-> FALSE,
      llm_context   |-> <<>> ]

\* mutant: the id of the new record is not put into the result
AddedResult_NoId(result, memory_id) ==
    [result EXCEPT !.memory_action = "add", !.should_save = TRUE]

\* mutant: the turn that inserted does not report that it saved
AddedResult_NoSave(result, memory_id) ==
    [result EXCEPT !.memory_action = "add", !.memory_id = Some(memory_id)]

\* the result of a turn that inserted: memory_action, memory_id, should_save
AddedResult(result, memory_id) ==
    [result EXCEPT !.memory_action = "add",
                   !.memory_id = Some(memory_id),
                   !.should_save = TRUE]

\* mutant: the utterance is compared as typed
IsListCommand_AsTyped(user_input) ==
    \E i \in 1..Len(list_commands) : user_input = list_commands[i]

\* user_input.lower() in ['列出記憶', 'list memories', '顯示記憶', '記憶列表']
IsListCommand(user_input) ==
    \E i \in 1..Len(list_commands) : Lower(user_input) = list_commands[i]

\* user_input.lower() in ['記憶統計', 'memory stats', '統計']
IsStatsCommand(user_input) ==
    \E i \in 1..Len(stats_commands) : Lower(user_input) = stats_commands[i]

\* mutant: the insert is made first and the retrieval sees the new record
NormalTurn_InsertFirst(self, files, user_input, now, fake, fail, calls) ==
    LET seen == calls \o <<"detect_memory_request">>
        Retrieve(after, saved, memory_id, made) ==
            LET Answer(relevant_memories) ==
                    LET llm_context == build_context_with_memories(user_input, relevant_memories)
                        result == [BlankResult EXCEPT !.llm_context = llm_context]
                    IN  Turn(after, saved,
                             << IF memory_id = None THEN result
                                ELSE AddedResult(result, memory_id[1]),
                                llm_context, relevant_memories >>,
                             "none", made \o <<"search_memories">>)
            IN  IF SearchRaises(after, user_input)
                THEN Turn(after, saved, <<>>, "AssertionError", made \o <<"search_memories">>)
                ELSE Answer(search_memories(after, user_input, RetrievalTopK, Rat(6, 10)))
        Decide(memory_decision) ==
            LET extracted == memory_decision.extracted_content
                memory_content == IF extracted # None /\ extracted[1] # <<>>
                                  THEN extracted[1]
                                  ELSE user_input
                Added(o) ==
                    IF o.exc # "none"
                    THEN Turn(o.self, files, <<>>, o.exc, seen \o <<"add_memory">>)
                    ELSE Retrieve(o.self, _save_memory(o.self, files, fail), Some(o.ret),
                                  seen \o <<"add_memory", "save_to_disk">>)
            IN  IF ~memory_decision.should_remember
                THEN Retrieve(self, files, None, seen)
                ELSE Added(add_memory(self, memory_content,
                                      [ type           |-> memory_decision.memory_type,
                                        confidence     |-> memory_decision.confidence,
                                        reason         |-> memory_decision.reason,
                                        original_input |-> user_input ],
                                      now, fake))
    IN  Decide(should_remember(user_input))

\* steps 3 to 6 of process_input: retrieval, context, trigger detection, insert
NormalTurn(self, files, user_input, now, fake, fail, calls) ==
    LET seen == calls \o <<"search_memories", "detect_memory_request">>
        Decide(relevant_memories, memory_decision) ==
            LET llm_context == build_context_with_memories(user_input, relevant_memories)
                result == [BlankResult EXCEPT !.llm_context = llm_context]
                extracted == memory_decision.extracted_content
                memory_content == IF extracted # None /\ extracted[1] # <<>>
                                  THEN extracted[1]
                                  ELSE user_input
                Added(o) ==
                    IF o.exc # "none"
                    THEN Turn(o.self, files, <<>>, o.exc, seen \o <<"add_memory">>)
                    ELSE IF SaveRaises(fail)
                         THEN Turn(o.self, _save_memory(o.self, files, fail), <<>>, "IOError",
                                   seen \o <<"add_memory", "save_to_disk">>)
                         ELSE Turn(o.self, _save_memory(o.self, files, fail),
                                   <<AddedResult(result, o.ret), llm_context, relevant_memories>>,
                                   "none", seen \o <<"add_memory", "save_to_disk">>)
            IN  IF ~memory_decision.should_remember
                THEN Turn(self, files, <<result, llm_context, relevant_memories>>, "none", seen)
                ELSE Added(add_memory(self, memory_content,
                                      [ type           |-> memory_decision.memory_type,
                                        confidence     |-> memory_decision.confidence,
                                        reason         |-> memory_decision.reason,
                                        original_input |-> user_input ],
                                      now, fake))
    IN  IF SearchRaises(self, user_input)
        THEN Turn(self, files, <<>>, "AssertionError", calls \o <<"search_memories">>)
        ELSE Decide(search_memories(self, user_input, RetrievalTopK, Rat(6, 10)),
                    should_remember(user_input))

\* process_input(user_input); fakes are the rows np.random.rand yields, fail
\* the way the write to disk goes
process_input(self, files, raw, now, fakes, fail) ==
    LET user_input == Strip(raw)
        Answer(d) ==
            LET first == <<"detect_deletion_request">> \o d.calls
                Listed(memories) ==
                    Turn(self, files,
                         << [BlankResult EXCEPT !.has_response = TRUE,
                                                !.response = IF memories = <<>>
                                                             THEN <<"no_memories">>
                                                             ELSE <<"memories", memories>>],
                            <<>>, memories >>,
                         "none", first \o <<"_list_memories">>)
            IN  IF d.exc # "none"
                THEN Turn(d.self, files, <<>>, d.exc, first)
                ELSE IF d.ret.success
                THEN IF SaveRaises(fail)
                     THEN Turn(d.self, _save_memory(d.self, files, fail), <<>>, "IOError",
                               first \o <<"save_to_disk">>)
                     ELSE Turn(d.self, _save_memory(d.self, files, fail),
                               << [BlankResult EXCEPT !.has_response = TRUE,
                                                      !.response = d.ret.message,
                                                      !.memory_action = "delete",
                                                      !.deleted_count = d.ret.deleted_count,
                                                      !.should_save = TRUE],
                                  <<>>, <<>> >>,
                               "none", first \o <<"save_to_disk">>)
                ELSE IF IsListCommand(user_input)
                THEN Listed(_list_memories(self))
                ELSE IF IsStatsCommand(user_input)
                THEN Turn(self, files,
                          << [BlankResult EXCEPT !.has_response = TRUE,
                                                 !.response = <<"stats", get_memory_stats(self)>>],
                             <<>>, <<>> >>,
                          "none", first \o <<"get_memory_stats">>)
                ELSE NormalTurn(self, files, user_input, now, Take(fakes, 1), fail, first)
    IN  Answer(process_deletion_request(self, user_input, now, fakes))

\* ---------------------------------------------------------------- state
VARIABLES
    store,        \* the AdvancedMemorySystem the calls act on
    now,          \* time.time(), in seconds
    disk,         \* the files <filepath>.index and <filepath>.pkl
    restored,     \* the store a later process builds and loads the files into
    last,         \* the latest call: its name, arguments, return value, exception
    added_log,    \* the ids add_memory has returned so far
    deleted_log,  \* the ids whose delete_memory_by_id has returned True so far
    fault         \* the condition of the disk: the write that fails on it, if any

vars == <<store, now, disk, restored, last, added_log, deleted_log, fault>>

\* ---------------------------------------------------------------- inputs
\* texts add_memory is given: empty, whitespace only, and three it stores
Texts == {<<>>, <<" ", "\t">>, <<"a">>, <<"A", " ", "b">>, DELETED}
\* metadata add_memory is given: the empty dict
MetadataInputs == {<<>>}
Queries == {<<"a">>, <<"b", " ", "a">>}
TopKs == {1, 2}
Thresholds == {Rat(0, 1), Rat(7, 10), Rat(1, 1)}
ContentThresholds == {Rat(1, 2), Rat(7, 10)}
IdInputs == (-1)..MaxId
Kinds == {"faiss", "mock"}

\* the pieces the utterances given to the detectors are put together from:
\*   什麼  嗎  你的  記住  我喜歡  我今年  我有  明天  關鍵  貓  ?  刪除  全部  最近
Fragments ==
    { <<"u4ec0", "u9ebc">>,
      <<"u55ce">>,
      <<"u4f60", "u7684">>,
      <<"u8a18", "u4f4f">>,
      <<"u6211", "u559c", "u6b61">>,
      <<"u6211", "u4eca", "u5e74">>,
      <<"u6211", "u6709">>,
      <<"u660e", "u5929">>,
      <<"u95dc", "u9375">>,
      <<"u8c93">>,
      <<"?">>,
      <<"u522a", "u9664">>,
      <<"u5168", "u90e8">>,
      <<"u6700", "u8fd1">> }

\* the utterances of at most n pieces
RECURSIVE Phrases(_)
Phrases(n) ==
    IF n = 0 THEN {<<>>}
    ELSE Phrases(n - 1) \cup {p \o f : p \in Phrases(n - 1), f \in Fragments}

DetectInputs == Phrases(MaxFragments) \cup {Said.what_is_your_name, Said.delete_everything}

Call(op, arg, ret, exc) == [op |-> op, arg |-> arg, ret |-> ret, exc |-> exc]

\* a store has been constructed and nothing called yet
InitStore ==
    /\ \E kind \in Kinds, hasModel \in BOOLEAN :
          /\ store = AdvancedMemorySystem(kind, hasModel)
          /\ restored = AdvancedMemorySystem(kind, hasModel)
    /\ now = 0
    /\ disk = NoFiles
    /\ last = Call("init", <<>>, 0, "none")
    /\ added_log = {}
    /\ deleted_log = {}

\* the disk takes every write
Init == InitStore /\ fault = "none"

\* the disk is in any condition: a write to it succeeds, writing the index
\* file raises, or the index file is written and writing the bundle raises
InitChat == InitStore /\ fault \in {"none", "index", "pkl"}

\* --------------------------------------------------------------- actions
AddMemory ==
    /\ store.next_id < MaxId
    /\ \E text \in Texts, metadata \in MetadataInputs, fake \in FakeRows(store, 1) :
          LET o == add_memory(store, text, metadata, now, fake)
          IN  /\ store' = o.self
              /\ last' = Call("add_memory", <<text, metadata>>, o.ret, o.exc)
              /\ added_log' = IF o.exc = "none" /\ o.ret # -1
                              THEN added_log \cup {o.ret}
                              ELSE added_log
    /\ UNCHANGED <<now, disk, restored, deleted_log, fault>>

DeleteMemoryById ==
    /\ \E memory_id \in IdInputs :
          LET o == delete_memory_by_id(store, memory_id, now)
          IN  /\ store' = o.self
              /\ last' = Call("delete_memory_by_id", <<memory_id>>, o.ret, o.exc)
              /\ deleted_log' = IF o.exc = "none" /\ o.ret
                                THEN deleted_log \cup {memory_id}
                                ELSE deleted_log
    /\ UNCHANGED <<now, disk, restored, added_log, fault>>

DeleteMemoriesByContent ==
    /\ \E search_text \in Queries, threshold \in ContentThresholds :
          LET o == delete_memories_by_content(store, search_text, threshold, now)
          IN  /\ store' = o.self
              /\ last' = Call("delete_memories_by_content", <<search_text, threshold>>, o.ret, o.exc)
              /\ deleted_log' = deleted_log \cup Range(o.ret)
    /\ UNCHANGED <<now, disk, restored, added_log, fault>>

DeleteRecentMemories ==
    /\ \E hours \in {RecentHours} :
          LET o == delete_recent_memories(store, hours, now)
          IN  /\ store' = o.self
              /\ last' = Call("delete_recent_memories", <<hours>>, o.ret, o.exc)
              /\ deleted_log' = deleted_log \cup Range(o.ret)
    /\ UNCHANGED <<now, disk, restored, added_log, fault>>

CleanupDeletedMemories ==
    /\ \E fakes \in FakeRows(store, Cardinality(ValidPositions(store))) :
          /\ store' = cleanup_deleted_memories(store, fakes)
          /\ last' = Call("cleanup_deleted_memories", <<>>, 0, "none")
    /\ UNCHANGED <<now, disk, restored, added_log, deleted_log, fault>>

SaveToDisk ==
    /\ disk' = save_to_disk(store, disk)
    /\ last' = Call("save_to_disk", <<>>, 0, "none")
    /\ UNCHANGED <<store, now, restored, added_log, deleted_log, fault>>

\* a fresh store loads the files, as they were written or after something
\* else has overwritten or removed one or both; the embedding model loads in
\* the new process or does not, whatever it did in the process that saved
LoadFromDisk ==
    /\ \E hasModel \in BOOLEAN,
          index \in {disk.index, Absent, Corrupt}, pkl \in {disk.pkl, Absent, Corrupt} :
          \E o \in {load_from_disk(AdvancedMemorySystem(store.index.kind, hasModel),
                                    [index |-> index, pkl |-> pkl])} :
              /\ restored' = o.self
              /\ last' = Call("load_from_disk", <<[index |-> index, pkl |-> pkl]>>, o.ret, o.exc)
    /\ UNCHANGED <<store, now, disk, added_log, deleted_log, fault>>

\* cleanup_deleted_memories() in which self.model.encode raises (line 190):
\* the exception leaves the method with the assignments made before it
CleanupEncodeRaises ==
    /\ ~NothingToClean(store)
    /\ store.model
    /\ Filtered(store).memories # <<>>
    /\ store' = Filtered(store)
    /\ last' = Call("cleanup_deleted_memories", <<>>, 0, "RuntimeError")
    /\ UNCHANGED <<now, disk, restored, added_log, deleted_log, fault>>

\* the calls on the store
Next ==
    \/ AddMemory
    \/ DeleteMemoryById
    \/ DeleteMemoriesByContent
    \/ DeleteRecentMemories
    \/ CleanupDeletedMemories

Spec == Init /\ [][Next]_vars

\* a store is built, saved, and loaded by a later process
NextDisk ==
    \/ disk = NoFiles /\ AddMemory
    \/ disk = NoFiles /\ DeleteMemoryById
    \/ disk = NoFiles /\ CleanupDeletedMemories
    \/ SaveToDisk
    \/ LoadFromDisk

SpecDisk == Init /\ [][NextDisk]_vars

\* the store under adds, single deletes and cleanups, as searches see it
NextSearch ==
    \/ AddMemory
    \/ DeleteMemoryById
    \/ CleanupDeletedMemories

SpecSearch == Init /\ [][NextSearch]_vars

\* the store under adds, single deletes and cleanups whose embedding call
\* returns or raises
NextRebuild ==
    \/ AddMemory
    \/ DeleteMemoryById
    \/ CleanupDeletedMemories
    \/ CleanupEncodeRaises

SpecRebuild == Init /\ [][NextRebuild]_vars

\* a call and the calls it made in turn
TracedCall(op, arg, ret, exc, calls) ==
    [op |-> op, arg |-> arg, ret |-> ret, exc |-> exc, calls |-> calls]

\* the number of rows np.random.rand yields in a call that made these calls
\* and left the store as after: one for an insert, one for each record a
\* cleanup keeps, none in embedding mode
RowsDrawn(after, calls) ==
    IF after.model THEN 0
    ELSE IF "add_memory" \in Range(calls) THEN 1
    ELSE IF "cleanup_deleted_memories" \in Range(calls) THEN Len(after.memories)
    ELSE 0

\* rows that stand for any: how many are drawn does not depend on them
AnyRows(self) == [i \in 1..(Len(self.memories) + 1) |-> Vec(self.dimension, <<3, 4>>)]

\* SmartMemoryManager.process_deletion_request(user_input)
ProcessDeletionRequest ==
    /\ \E user_input \in ChatInputs :
       \E dry \in {process_deletion_request(store, user_input, now, AnyRows(store))} :
       \E fakes \in FakeRows(store, RowsDrawn(dry.self, dry.calls)) :
       \E d \in {process_deletion_request(store, user_input, now, fakes)} :
          /\ store' = d.self
          /\ last' = TracedCall("process_deletion_request", <<user_input>>,
                                d.ret, d.exc, d.calls)
          /\ deleted_log' = IF d.exc = "none" /\ d.ret.success
                            THEN deleted_log \cup Range(d.ret.deleted_ids)
                            ELSE deleted_log
    /\ UNCHANGED <<now, disk, restored, added_log, fault>>

\* SmartChatbotWithMemory.process_input(user_input): one turn of the chat;
\* a turn that inserts is taken while next_id stays within MaxChatId
ProcessInput ==
    /\ \E raw \in ChatInputs :
       \E dry \in {process_input(store, disk, raw, now, AnyRows(store), fault)} :
       \E fakes \in FakeRows(store, RowsDrawn(dry.self, dry.calls)) :
       \E t \in {process_input(store, disk, raw, now, fakes, fault)} :
       \E d \in {process_deletion_request(store, Strip(raw), now, fakes)} :
          /\ t.self.next_id > store.next_id => t.self.next_id <= MaxChatId
          /\ store' = t.self
          /\ disk' = t.files
          /\ last' = TracedCall("process_input", <<raw>>, t.ret, t.exc, t.calls)
          /\ added_log' = IF t.self.next_id > store.next_id
                          THEN added_log \cup {store.next_id}
                          ELSE added_log
          /\ deleted_log' = IF d.exc = "none" /\ d.ret.success
                            THEN deleted_log \cup Range(d.ret.deleted_ids)
                            ELSE deleted_log
    /\ UNCHANGED <<now, restored, fault>>

\* the chat: the store is driven by process_input alone
NextChat == ProcessInput

SpecChat == InitChat /\ [][NextChat]_vars

\* SmartChatbotWithMemory.add_memory_manually(content, metadata): add_memory,
\* then _save_memory whatever add_memory returned
AddMemoryManually ==
    /\ store.next_id < MaxChatId
    /\ \E content \in Texts, metadata \in MetadataInputs :
       \E o \in {add_memory(store, content, metadata, now, Take(AnyRows(store), 1))} :
          /\ store' = o.self
          /\ disk' = IF o.exc = "none" THEN _save_memory(o.self, disk, fault) ELSE disk
          /\ last' = TracedCall("add_memory_manually", <<content, metadata>>, o.ret, o.exc,
                                IF o.exc = "none" THEN <<"add_memory", "save_to_disk">>
                                ELSE <<"add_memory">>)
          /\ added_log' = IF o.exc = "none" /\ o.ret # -1 THEN added_log \cup {o.ret}
                          ELSE added_log
    /\ UNCHANGED <<now, restored, deleted_log, fault>>

\* the chat with records also put in by add_memory_manually
NextDriven ==
    \/ ProcessInput
    \/ AddMemoryManually

SpecDriven == InitChat /\ [][NextDriven]_vars

\* the memory manager over a store that is also added to and deleted from
\* directly
NextManager ==
    \/ store.next_id < MaxChatId /\ AddMemory
    \/ DeleteMemoryById
    \/ ProcessDeletionRequest

SpecManager == Init /\ [][NextManager]_vars

\* an utterance is given to the detectors
InitDetect ==
    /\ store = AdvancedMemorySystem("mock", FALSE)
    /\ restored = store
    /\ now = 0
    /\ disk = NoFiles
    /\ \E text \in DetectInputs : last = Call("utterance", <<text>>, 0, "none")
    /\ added_log = {}
    /\ deleted_log = {}
    /\ fault = "none"

\* SmartMemoryTriggerDetector.detect_memory_request(text)
DetectMemoryRequest ==
    /\ last.op = "utterance"
    /\ last' = Call("detect_memory_request", last.arg,
                    detect_memory_request(last.arg[1]), "none")
    /\ UNCHANGED <<store, now, disk, restored, added_log, deleted_log, fault>>

\* MemoryDeletionDetector.detect_deletion_request(text)
DetectDeletionRequest ==
    /\ last.op = "utterance"
    /\ last' = Call("detect_deletion_request", last.arg,
                    detect_deletion_request(last.arg[1]), "none")
    /\ UNCHANGED <<store, now, disk, restored, added_log, deleted_log, fault>>

NextDetect ==
    \/ DetectMemoryRequest
    \/ DetectDeletionRequest

SpecDetect == InitDetect /\ [][NextDetect]_vars

\* add_memory(text, metadata) for a text and a metadata dict of the given
\* sets, offered while next_id < limit; the row np.random.rand yields in
\* fallback mode is a row that stands for any, no deletion reading it
AddRecord(texts, metadatas, limit) ==
    /\ store.next_id < limit
    /\ \E text \in texts, metadata \in metadatas :
          \E o \in {add_memory(store, text, metadata, now, Take(AnyRows(store), 1))} :
              /\ store' = o.self
              /\ last' = Call("add_memory", <<text, metadata>>, o.ret, o.exc)
              /\ added_log' = IF o.exc = "none" /\ o.ret # -1
                              THEN added_log \cup {o.ret}
                              ELSE added_log
    /\ UNCHANGED <<now, disk, restored, deleted_log, fault>>

\* a store of many records of one text, and deletions by content on it
NextBulk ==
    \/ AddRecord({<<"a">>}, MetadataInputs, MaxBulk)
    \/ DeleteMemoriesByContent

SpecBulk == Init /\ [][NextBulk]_vars

\* records stamped by add_memory (the time of the call), or by the caller with
\* a time RecentHours earlier to the second or a second more than that, and
\* deletions of single records and of the recent ones
NextRecent ==
    \/ AddRecord({<<"a">>, DELETED},
                 {<<>>, [timestamp |-> now - RecentHours * SecondsPerHour],
                        [timestamp |-> now - RecentHours * SecondsPerHour - 1]},
                 MaxId)
    \/ DeleteMemoryById
    \/ DeleteRecentMemories

SpecRecent == Init /\ [][NextRecent]_vars

\* the chat over a store that was filled, before the first turn, with more
\* records than one retrieval returns
NextRecall ==
    \/ /\ last.op \in {"init", "add_memory"}
       /\ AddRecord({<<"a">>, <<"A", " ", "b">>}, MetadataInputs, MaxRecall)
    \/ ProcessInput

SpecRecall == Init /\ [][NextRecall]_vars

\* --------------------------------------------------------------- claims
\* the three parallel lists and the index hold the same number of entries
Aligned(self) ==
    /\ Len(self.memory_ids) = Len(self.memories)
    /\ Len(self.memories) = Len(self.metadata)
    /\ Len(self.metadata) = IndexCount(self.index)

\* C1: after any sequence of add_memory, delete_memory_by_id, the bulk deletes
\* and cleanup_deleted_memories on a store that starts empty, memory_ids,
\* memories, metadata and the index hold the same number of entries.
C1_Alignment == Aligned(store)

\* C2: the ids successive successful add_memory calls return are strictly
\* increasing and none is returned twice, whatever deletes and cleanups happen
\* in between; next_id never decreases.
C2_IdMonotonicity ==
    [][ /\ store'.next_id >= store.next_id
        /\ (last'.op = "add_memory" /\ last'.exc = "none" /\ last'.ret # -1)
              => /\ last'.ret \notin added_log
                 /\ \A earlier \in added_log : last'.ret > earlier ]_vars

\* C2 witness: an add that returned the highest id into a store that a cleanup
\* had emptied of every earlier record
C2_Witness ==
    /\ last.op = "add_memory"
    /\ last.ret = MaxId - 1
    /\ store.memory_ids = <<last.ret>>
    /\ Cardinality(added_log) = MaxId

\* the ids of the records a search returned
ResultIds(results) == {results[i].id : i \in 1..Len(results)}

\* the positions (0-based) of the records that are neither soft-deleted nor
\* hold the deletion sentinel
ActivePositions(self) ==
    {i - 1 : i \in {j \in 1..Len(self.memories) :
                       /\ self.memory_ids[j] \notin self.deleted_ids
                       /\ self.memories[j] # DELETED}}

\* C3: once delete_memory_by_id(x) has returned True, no later search_memories
\* call returns a result with id x, for any query, top_k and threshold, after
\* any further adds, deletes and cleanups.
C3_SoftDeleteExclusion ==
    \A query \in Queries, top_k \in TopKs, threshold \in Thresholds :
        ResultIds(search_memories(store, query, top_k, threshold)) \cap deleted_log = {}

\* C3 witness: in embedding mode a soft-deleted record whose stale vector is
\* still among the candidates of a search that returns another record
C3_Witness ==
    /\ store.model
    /\ \E x \in deleted_log, query \in Queries, top_k \in TopKs, threshold \in Thresholds :
          /\ x \in Range(store.memory_ids)
          /\ LET cands == SearchCandidates(store, query, top_k)
             IN  \E i \in 1..Len(cands) :
                    /\ cands[i].idx >= 0
                    /\ PyAt(store.memory_ids, cands[i].idx) = x
          /\ search_memories(store, query, top_k, threshold) # <<>>

\* C4: every result of search_memories(q, k, t) has score >= t, in embedding
\* mode and in fallback mode, and the result never has more than k entries.
C4_ThresholdFloor ==
    \A query \in Queries, top_k \in TopKs, threshold \in Thresholds :
        LET results == search_memories(store, query, top_k, threshold)
        IN  /\ Len(results) <= top_k
            /\ \A i \in 1..Len(results) :
                  results[i].score.n * threshold.d >= threshold.n * results[i].score.d

\* C4 witness: a search that returned top_k records and left out an active
\* record for its score below the threshold
C4_Witness ==
    \E query \in Queries, top_k \in TopKs, threshold \in Thresholds :
        LET results == search_memories(store, query, top_k, threshold)
            cands == SearchCandidates(store, query, top_k)
        IN  /\ Len(results) = top_k
            /\ \E i \in 1..Len(cands) :
                  /\ cands[i].idx \in ActivePositions(store)
                  /\ cands[i].score.n * threshold.d < threshold.n * cands[i].score.d

\* C5: for a fixed store, query and top_k, raising the threshold can only
\* shrink the result: for t1 <= t2 the ids search_memories(q, k, t2) returns
\* are among those search_memories(q, k, t1) returns.
C5_ThresholdMonotone ==
    \A query \in Queries, top_k \in TopKs :
        LET Shrinks(found) ==
                \* found is compared first, which makes it a table computed once
                /\ found # <<>>
                /\ \A t1 \in Thresholds, t2 \in Thresholds :
                       t1.n * t2.d <= t2.n * t1.d => found[t2] \subseteq found[t1]
        IN  Shrinks([t \in Thresholds |-> ResultIds(search_memories(store, query, top_k, t))])

\* C5 witness: a higher threshold that returns some, but not all, of what the
\* lower threshold returns
C5_Witness ==
    \E query \in Queries, top_k \in TopKs :
        LET found == [t \in Thresholds |-> ResultIds(search_memories(store, query, top_k, t))]
        IN  \E t1 \in Thresholds, t2 \in Thresholds :
               /\ t1.n * t2.d < t2.n * t1.d
               /\ found[t2] # {}
               /\ found[t2] # found[t1]

\* C6: a second cleanup_deleted_memories right after a first changes nothing:
\* the store (records, ids, next_id, deleted_ids, index) and get_memory_stats()
\* are as the first call left them.
C6_CleanupIdempotent ==
    last.op = "cleanup_deleted_memories"
        => \A fakes \in FakeRows(store, Len(store.memories)) :
              LET again == cleanup_deleted_memories(store, fakes)
              IN  /\ again = store
                  /\ get_memory_stats(again) = get_memory_stats(store)

\* C6 witness: a fallback-mode store just after a cleanup that removed a record
\* and kept one
C6_Witness ==
    /\ last.op = "cleanup_deleted_memories"
    /\ ~store.model
    /\ Len(store.memories) >= 1
    /\ Len(store.memories) < store.next_id

\* C7: for a store with at least one active and one soft-deleted record,
\* save_to_disk(p) followed by load_from_disk(p) into a fresh store yields a
\* store with the same get_memory_stats(), the same next_id and, for every
\* query, the same search_memories results.
C7_RoundTrip ==
    ( /\ last.op = "load_from_disk"
      /\ disk # NoFiles
      /\ last.arg[1] = disk
      /\ restored.model = store.model
      /\ ActivePositions(store) # {}
      /\ store.deleted_ids # {} )
        => /\ get_memory_stats(restored) = get_memory_stats(store)
           /\ restored.next_id = store.next_id
           /\ \A query \in Queries, top_k \in TopKs, threshold \in Thresholds :
                 search_memories(restored, query, top_k, threshold)
                    = search_memories(store, query, top_k, threshold)

\* C7 witness: a reloaded embedding-mode store with an active and a soft-deleted
\* record in which a search finds something
C7_Witness ==
    /\ last.op = "load_from_disk"
    /\ disk # NoFiles
    /\ last.arg[1] = disk
    /\ store.model
    /\ restored.model
    /\ ActivePositions(store) # {}
    /\ store.deleted_ids # {}
    /\ Len(restored.memories) = Len(store.memories)
    /\ \E query \in Queries, top_k \in TopKs, threshold \in Thresholds :
          search_memories(restored, query, top_k, threshold) # <<>>

\* text is empty or consists of whitespace only
WhitespaceOnly(text) == \A i \in 1..Len(text) : text[i] \in Whitespace

\* C8: add_memory with empty or whitespace-only text returns -1 and leaves the
\* store as it was: no record, metadata, id or vector is added and next_id is
\* not consumed.
C8_BlankRejected ==
    [][ (last'.op = "add_memory" /\ WhitespaceOnly(last'.arg[1]))
           => /\ last'.ret = -1
              /\ last'.exc = "none"
              /\ store' = store
              /\ added_log' = added_log ]_vars

\* C8 witness: a whitespace-only text rejected by a store that holds a record
C8_Witness ==
    /\ last.op = "add_memory"
    /\ last.arg[1] # <<>>
    /\ WhitespaceOnly(last.arg[1])
    /\ last.ret = -1
    /\ Len(store.memories) > 0

\* C9: delete_memory_by_id(id) returns False and changes nothing when id is
\* not in the id list (never assigned, or removed by a cleanup), returns True
\* exactly when id is in the id list, and never raises.
C9_DeleteLookup ==
    [][ last'.op = "delete_memory_by_id"
           => /\ last'.exc = "none"
              /\ last'.ret = (last'.arg[1] \in Range(store.memory_ids))
              /\ last'.arg[1] \notin Range(store.memory_ids) => store' = store ]_vars

\* C9 witness: a delete that returned False for an id an earlier delete and a
\* cleanup had removed from a store that still holds records
C9_Witness ==
    /\ last.op = "delete_memory_by_id"
    /\ last.ret = FALSE
    /\ last.arg[1] \in deleted_log
    /\ Len(store.memories) > 0

\* C10: a successful delete_memory_by_id(x) changes only the slot of x (its
\* text becomes the deletion sentinel, its metadata the deletion marker) and
\* adds x to deleted_ids; the number of records, the index, next_id and every
\* other record's id, text and metadata are unchanged.
C10_DeleteFrame ==
    [][ (last'.op = "delete_memory_by_id" /\ last'.exc = "none" /\ last'.ret)
           => LET x == last'.arg[1]
                  slot == CHOOSE i \in 1..Len(store.memory_ids) : store.memory_ids[i] = x
              IN  /\ store'.memory_ids = store.memory_ids
                  /\ Len(store'.memories) = Len(store.memories)
                  /\ Len(store'.metadata) = Len(store.metadata)
                  /\ store'.memories[slot] = DELETED
                  /\ DOMAIN store'.metadata[slot] = {"deleted", "deleted_at", "deleted_at_str"}
                  /\ store'.metadata[slot].deleted = TRUE
                  /\ \A i \in 1..Len(store.memories) :
                        i # slot => /\ store'.memories[i] = store.memories[i]
                                    /\ store'.metadata[i] = store.metadata[i]
                  /\ store'.deleted_ids = store.deleted_ids \cup {x}
                  /\ store'.index = store.index
                  /\ store'.next_id = store.next_id
                  /\ store'.model = store.model
                  /\ store'.dimension = store.dimension ]_vars

\* C10 witness: a successful delete of a record that is not at the position
\* its id names, in a store that holds another active record
C10_Witness ==
    /\ last.op = "delete_memory_by_id"
    /\ last.ret = TRUE
    /\ PositionOf(store, last.arg[1]) # last.arg[1] + 1
    /\ Cardinality(ActivePositions(store)) >= 1
    /\ store.deleted_ids = {last.arg[1]}

\* the calls of a turn that belong to retrieval, trigger detection and insert
NormalCalls == {"search_memories", "detect_memory_request", "add_memory"}

\* C11: whenever the Deletion-Intent Detector classifies the utterance of a turn
\* as a deletion request, process_input executes the deletion and returns the
\* administrative response (memory_action = delete, empty context, no relevant
\* memories); the turn makes no retrieval, no trigger detection and no insert.
C11_DeletionShortCircuit ==
    ( /\ last.op = "process_input"
      /\ detect_deletion_request(Strip(last.arg[1])).is_deletion_request )
        => /\ last.exc = "none"
           /\ last.ret[1].memory_action = "delete"
           /\ last.ret[2] = <<>>
           /\ last.ret[3] = <<>>
           /\ Range(last.calls) \cap NormalCalls = {}

Persisted(call) == "save_to_disk" \in Range(call.calls)

C14_WriteFailureTolerated ==
    [][ (last'.op = "process_input" /\ fault # "none" /\ Persisted(last'))
            => /\ last'.exc = "none"
               /\ \E fakes \in FakeRows(store, RowsDrawn(store', last'.calls)) :
                     LET ok == process_input(store, disk, last'.arg[1], now, fakes, "none")
                     IN  /\ ok.exc = "none"
                         /\ last'.ret = ok.ret
                         /\ last'.calls = ok.calls
                         /\ store' = ok.self
                         /\ ok.files.pkl # disk'.pkl ]_vars

\* on a disk that takes no .pkl, a second turn inserted record 1 next to the
\* record 0 of the first turn, and no .pkl file exists
C14_Witness ==
    /\ fault = "pkl"
    /\ last.op = "process_input"
    /\ last.exc = "none"
    /\ last.ret[1].memory_action = "add"
    /\ last.ret[1].memory_id = Some(1)
    /\ last.ret[1].should_save
    /\ store.memory_ids = <<0, 1>>
    /\ disk.pkl = Absent
    /\ disk.index # Absent

\* the ids that are in the store and not soft-deleted
ActiveIds(self) == Range(self.memory_ids) \ self.deleted_ids

\* the call compacted the store
Compacted(call) == "cleanup_deleted_memories" \in Range(call.calls)

\* C15: process_deletion_request calls cleanup_deleted_memories exactly when
\* the request soft-deleted at least one record that was active; a request that
\* matched nothing leaves the store as it was, pending soft-deleted records
\* included, and one that deleted something leaves no soft-deleted record.
C15_CleanupIffDeleted ==
    [][ (last'.op = "process_deletion_request" /\ last'.exc = "none" /\ last'.ret.success)
            => LET hit == ActiveIds(store) \ ActiveIds(store')
                   reported == Range(last'.ret.deleted_ids)
               IN  /\ Compacted(last') <=> hit # {}
                   /\ Compacted(last') <=> reported # {}
                   /\ reported \subseteq hit
                   /\ last'.ret.deleted_count = Cardinality(reported)
                   /\ hit = {} => store' = store
                   /\ hit # {} => /\ store'.deleted_ids = {}
                                  /\ Range(store'.memory_ids)
                                         \subseteq ActiveIds(store) \ reported
                                  /\ Len(store'.memories) = Len(store'.memory_ids)
                                  /\ Len(store'.memories) < Len(store.memories) ]_vars

\* a request deleted record 1 and compacted; record 0, soft-deleted by an
\* earlier call and still held then, is gone with it
C15_Witness ==
    /\ last.op = "process_deletion_request"
    /\ last.exc = "none"
    /\ last.ret.success
    /\ last.ret.deleted_ids = <<1>>
    /\ Compacted(last)
    /\ deleted_log = {0, 1}
    /\ store.memory_ids = <<>>
    /\ store.deleted_ids = {}

\* the utterance of the call asks to delete with scope all
ScopeAll(call) ==
    /\ call.op = "process_deletion_request"
    /\ call.exc = "none"
    /\ DeletionInfo[call.arg[1]].is_deletion_request
    /\ DeletionInfo[call.arg[1]].deletion_scope = "all"

\* C16 as stated: after a deletion request with scope all the store holds no
\* records at all, and next_id has kept its value.
C16_DeleteAllEmpties ==
    [][ ScopeAll(last')
            => /\ last'.ret.success
               /\ Range(last'.ret.deleted_ids) = ActiveIds(store)
               /\ store'.memory_ids = <<>>
               /\ store'.memories = <<>>
               /\ store'.metadata = <<>>
               /\ store'.deleted_ids = {}
               /\ store'.next_id = store.next_id ]_vars

\* C16 amended: a deletion request with scope all soft-deletes every id that
\* was active and compacts if there was one, so that the store then holds no
\* records at all; with no active id it compacts nothing and the store keeps
\* its pending soft-deleted records. Either way no active record is left and
\* next_id keeps its value, so that a later add returns a fresh id.
C16_DeleteAllLeavesNoActive ==
    [][ /\ ScopeAll(last')
            => /\ last'.ret.success
               /\ Range(last'.ret.deleted_ids) = ActiveIds(store)
               /\ ActiveIds(store') = {}
               /\ store'.next_id = store.next_id
               /\ IF ActiveIds(store) # {}
                  THEN /\ Compacted(last')
                       /\ store'.memory_ids = <<>>
                       /\ store'.memories = <<>>
                       /\ store'.metadata = <<>>
                       /\ store'.deleted_ids = {}
                  ELSE store' = store
        /\ (ScopeAll(last) /\ last'.op = "add_memory" /\ last'.exc = "none" /\ last'.ret # -1)
            => /\ last'.ret = store.next_id
               /\ last'.ret \notin added_log
               /\ store'.memory_ids = <<last'.ret>> \/ store'.memory_ids = store.memory_ids \o <<last'.ret>> ]_vars

\* records 0 and 1 were added and deleted by one request with scope all: the
\* store is empty and the next id is 2
C16_Witness ==
    /\ ScopeAll(last)
    /\ last.ret.deleted_ids = <<0, 1>>
    /\ Compacted(last)
    /\ store.memory_ids = <<>>
    /\ store.next_id = 2

\* C17: when detect_deletion_request finds no deletion request in the
\* utterance, process_deletion_request returns success = False and leaves
\* records, ids, deleted_ids, index and next_id as they were.
C17_NoRequestNoEffect ==
    [][ ( /\ last'.op = "process_deletion_request"
          /\ ~DeletionInfo[last'.arg[1]].is_deletion_request )
            => /\ last'.exc = "none"
               /\ ~last'.ret.success
               /\ last'.ret.message = <<"no_request">>
               /\ last'.calls = <<>>
               /\ store' = store
               /\ deleted_log' = deleted_log ]_vars

\* "remember a" was given to process_deletion_request while the store held the
\* active record 1 and the soft-deleted record 0: both are still there
C17_Witness ==
    /\ last.op = "process_deletion_request"
    /\ last.arg[1] = Said.remember_a
    /\ ~last.ret.success
    /\ store.memory_ids = <<0, 1>>
    /\ store.deleted_ids = {0}
    /\ store.memories[1] = DELETED
    /\ IndexCount(store.index) = 2

\* the calls a command turn must not make
StoreCalls ==
    NormalCalls \cup { "save_to_disk", "cleanup_deleted_memories", "_delete_all_memories",
                       "delete_recent_memories", "delete_memories_by_content" }

\* the utterance of the turn is one of the reserved commands, in any case
IsCommandTurn(call) ==
    /\ call.op = "process_input"
    /\ Lower(Strip(call.arg[1])) \in Range(list_commands) \cup Range(stats_commands)

\* C18: a turn whose utterance is a reserved command returns its report and
\* leaves the store and the files as they were; it makes no search, no trigger
\* detection, no insert, no delete and no save.
C18_CommandsLeaveStore ==
    [][ IsCommandTurn(last')
            => /\ last'.exc = "none"
               /\ store' = store
               /\ disk' = disk
               /\ Range(last'.calls) \cap StoreCalls = {}
               /\ last'.ret[1].has_response
               /\ last'.ret[1].memory_action = "none"
               /\ ~last'.ret[1].should_save
               /\ last'.ret[2] = <<>>
               /\ last'.ret[1].response[1] \in {"no_memories", "memories", "stats"}
               /\ last'.ret[1].response[1] = "memories"
                     => last'.ret[1].response[2] = _list_memories(store)
               /\ last'.ret[1].response[1] = "stats"
                     => last'.ret[1].response[2] = get_memory_stats(store) ]_vars

\* "List memories" was said while the store held records 0 and 1: the turn
\* returned the list of both
C18_Witness ==
    /\ IsCommandTurn(last)
    /\ last.arg[1] = Said.list_memories
    /\ last.ret[1].response[1] = "memories"
    /\ Len(last.ret[1].response[2]) = 2
    /\ store.memory_ids = <<0, 1>>

\* C19: detect_memory_request applies its rules in the order query, explicit
\* keyword, personal disclosure, structural heuristics, and the first that
\* matches decides: a text that matches a query pattern is not stored and has
\* kind query, whatever else it contains; a text no rule matches is not
\* stored and has kind none.
C19_RuleOrder ==
    last.op = "detect_memory_request"
        => LET text == Strip(last.arg[1])
               query == _is_query(text)
               explicit == _check_explicit_memory_request(text) # None
               personal == _check_personal_info(text) # None
               structural == _analyze_sentence_structure(text) # None
               should_store == last.ret[1]
               kind == last.ret[2]
           IN  /\ query => ~should_store /\ kind = <<"query">>
               /\ (~query /\ explicit) => should_store /\ kind = <<"explicit">>
               /\ (~query /\ ~explicit /\ personal)
                     => /\ should_store
                        /\ kind = _check_personal_info(text)[1].type
                        /\ SubSeq(kind, 1, 1) = <<"personal_">>
               /\ (~query /\ ~explicit /\ ~personal /\ structural)
                     => /\ should_store
                        /\ kind \in {<<"declarative">>, <<"plan">>, <<"important_fact">>}
               /\ (~query /\ ~explicit /\ ~personal /\ ~structural)
                     => ~should_store /\ kind = <<"none">>

\* 記住嗎 holds the explicit keyword 記住 and ends as a question: it was taken
\* for a query
C19_Witness ==
    /\ last.op = "detect_memory_request"
    /\ last.arg[1] = <<"u8a18", "u4f4f", "u55ce">>
    /\ _check_explicit_memory_request(last.arg[1]) # None
    /\ last.ret[1] = FALSE
    /\ last.ret[2] = <<"query">>

\* C20 as stated: for "What is your name?" detect_memory_request returns
\* should_store = False and kind query.
C20_WhatIsYourName ==
    (last.op = "detect_memory_request" /\ last.arg[1] = Said.what_is_your_name)
        => last.ret[1] = FALSE /\ last.ret[2] = <<"query">>

\* ---------------------------------------------------------------- C21
\* the utterance holds one of the keywords or patterns for deleting
HasDeletionKeyword(text) ==
    \/ ContainsAny(Lower(text), deletion_explicit)
    \/ \E i \in 1..Len(deletion_specific_patterns) :
           SearchEnd(text, deletion_specific_patterns[i]) # 0

\* C21: what detect_deletion_request returns for an utterance holding a
\* deletion keyword has scope 'all' when the utterance holds a word for
\* everything, else 'recent' when it holds a recency word, else 'specific';
\* for an utterance holding no deletion keyword is_deletion_request is false
C21_ScopePriority ==
    last.op = "detect_deletion_request" =>
        LET text == last.arg[1]
            everything == ContainsAny(Lower(text), scope_all_words)
            recency == ContainsAny(Lower(text), scope_recent_words)
        IN  /\ last.ret.is_deletion_request = HasDeletionKeyword(text)
            /\ HasDeletionKeyword(text) =>
                   /\ everything => last.ret.deletion_scope = "all"
                   /\ ~everything /\ recency => last.ret.deletion_scope = "recent"
                   /\ ~everything /\ ~recency => last.ret.deletion_scope = "specific"

\* a deletion request holding both a word for everything and a recency word,
\* the recency word first, has been given the scope 'all'
C21_Witness ==
    /\ last.op = "detect_deletion_request"
    /\ last.arg[1] = <<"u522a", "u9664", "u6700", "u8fd1", "u5168", "u90e8">>
    /\ last.ret.is_deletion_request
    /\ last.ret.deletion_scope = "all"

\* ---------------------------------------------------------------- C22
\* the files as written, or with one or both of them unreadable
AsFound(files) ==
    {[index |-> index, pkl |-> pkl] : index \in {files.index, Corrupt},
                                      pkl \in {files.pkl, Corrupt}}

\* the lists, the id counter and the set of soft-deleted ids of a store
Lists(self) ==
    <<self.memories, self.metadata, self.memory_ids, self.next_id, self.deleted_ids>>

\* C22: load_from_disk never raises, whatever the two files hold; with both
\* files absent the store is left as it was, and a file that cannot be read
\* leaves what it would have supplied as it was
C22_LoadNeverRaises ==
    /\ last.op = "load_from_disk" => last.exc = "none"
    /\ load_from_disk(store, NoFiles) = Outcome(store, 0, "none")
    /\ \A files \in AsFound(disk) :
          LET o == load_from_disk(store, files)
          IN  /\ o.exc = "none"
              /\ files.pkl = Corrupt => Lists(o.self) = Lists(store)
              /\ files.index = Corrupt /\ store.index.kind = "faiss" => o.self = store

\* a store with a record has been saved and the saved files loaded with an
\* unreadable bundle: the call returned, the index loaded and the lists empty
C22_Witness ==
    /\ last.op = "load_from_disk"
    /\ last.exc = "none"
    /\ Len(store.memories) >= 1
    /\ disk.pkl = File(PickledBundle(store))
    /\ last.arg[1] = [index |-> disk.index, pkl |-> Corrupt]
    /\ IndexCount(restored.index) >= 1
    /\ restored.memories = <<>>

\* ---------------------------------------------------------------- C23
\* other contents of the index: no rows at all, or as many rows as it holds,
\* all of them the same random vector
OtherRows(self) ==
    {<<>>} \cup {[p \in 1..IndexCount(self.index) |-> row] :
                    row \in RandomVectors(self.index.dimension)}

\* C23: in fallback mode what search_memories returns is the same whatever
\* the index holds, and each score is the Jaccard similarity of the
\* lower-cased word sets of the query and of the record's text
C23_FallbackIgnoresIndex ==
    ~store.model =>
        \A query \in Queries, top_k \in TopKs, threshold \in Thresholds :
            LET found == search_memories(store, query, top_k, threshold)
            IN  /\ \A data \in OtherRows(store) :
                       search_memories([store EXCEPT !.index.data = data],
                                       query, top_k, threshold) = found
                /\ \A i \in 1..Len(found) :
                       found[i].score
                           = _simple_similarity(query, store.memories[found[i].index + 1])

\* a fallback-mode store whose index holds two different rows and in which a
\* search finds a record
C23_Witness ==
    /\ ~store.model
    /\ Len(store.memories) >= 2
    /\ IndexCount(store.index) >= 2
    /\ store.index.data[1] # store.index.data[2]
    /\ search_memories(store, <<"b", " ", "a">>, 1, Rat(7, 10)) # <<>>

\* ---------------------------------------------------------------- C24
\* C24 as stated: get_memory_stats reports as total the number of records
\* ever successfully added, as active total - deleted, and cleanup_needed
\* exactly when deleted > 0, after any sequence of add, delete and cleanup
C24_TotalEverAdded ==
    LET stats == get_memory_stats(store)
    IN  /\ stats.total = Cardinality(added_log)
        /\ stats.active = stats.total - stats.deleted
        /\ stats.cleanup_needed <=> stats.deleted > 0

\* C24 amended: total is the number of records the store holds, the
\* soft-deleted ones included: those ever added less those a cleanup has
\* removed; deleted is the number of soft-deleted records still held,
\* active = total - deleted, and cleanup_needed exactly when deleted > 0
C24_TotalHeld ==
    LET stats == get_memory_stats(store)
        held == added_log \cap Range(store.memory_ids)
    IN  /\ stats.total = Cardinality(held)
        /\ stats.total = Len(store.memories)
        /\ stats.deleted = Cardinality(held \cap deleted_log)
        /\ stats.active = stats.total - stats.deleted
        /\ stats.cleanup_needed <=> stats.deleted > 0

\* after adds, a delete, a cleanup and another delete the store holds fewer
\* records than were ever added, one of them soft-deleted and one not
C24_Witness ==
    /\ Len(store.memory_ids) < Cardinality(added_log)
    /\ get_memory_stats(store).deleted = 1
    /\ get_memory_stats(store).active = 1
    /\ get_memory_stats(store).cleanup_needed

\* ---------------------------------------------------------------- C25
\* the number of neighbours the faiss index is asked for: it returns exactly
\* as many rows as it is asked for
NeighboursAsked(self, query, top_k) == Len(SearchCandidates(self, query, top_k))

\* the search reaches the index: embedding mode, the faiss library, a store
\* that is not empty
AsksIndex(self, query) ==
    /\ self.model
    /\ self.index.kind = "faiss"
    /\ Len(self.memories) > 0
    /\ ~SearchRaises(self, query)

\* C25 as stated: search_memories asks the index for min(2*top_k, activeCount)
\* neighbours, activeCount being the number of records not soft-deleted
C25_AsksForActiveCount ==
    \A query \in Queries, top_k \in TopKs :
        AsksIndex(store, query) =>
            NeighboursAsked(store, query, top_k)
                = Min2(2 * top_k,
                       Cardinality({i \in 1..Len(store.memory_ids) :
                                       store.memory_ids[i] \notin store.deleted_ids}))

\* C25 amended: search_memories asks the index for min(2*top_k, n) neighbours,
\* n being the number of records the store holds, soft-deleted ones included
C25_AsksForHeldCount ==
    \A query \in Queries, top_k \in TopKs :
        AsksIndex(store, query) =>
            NeighboursAsked(store, query, top_k) = Min2(2 * top_k, Len(store.memory_ids))

\* an embedding-mode store of two records, one of them soft-deleted, whose
\* index is asked for two neighbours when top_k is 1
C25_Witness ==
    /\ AsksIndex(store, <<"a">>)
    /\ Len(store.memory_ids) = 2
    /\ Cardinality(store.deleted_ids) = 1
    /\ NeighboursAsked(store, <<"a">>, 1) = 2

\* ---------------------------------------------------------------- C26
\* C26: search_memories returns its results in descending order of score,
\* results of equal score in the order the records were inserted, in
\* embedding mode and in fallback mode
C26_TiesInInsertionOrder ==
    \A query \in Queries, top_k \in TopKs, threshold \in Thresholds :
        ~SearchRaises(store, query) =>
            LET found == search_memories(store, query, top_k, threshold)
            IN  \A i, j \in 1..Len(found) :
                    i < j => /\ GE(found[i].score, found[j].score)
                             /\ EQ(found[i].score, found[j].score)
                                    => found[i].index < found[j].index

\* ---------------------------------------------------------------- C27
\* the active records whose inner product with the query, as the faiss index
\* holds them, is at least the threshold
ActiveMatches(self, query, threshold) ==
    {idx \in ActivePositions(self) :
        /\ idx + 1 <= IndexCount(self.index)
        /\ GE(Rat(Dot(Encode(query), self.index.data[idx + 1]), UnitSq), threshold)}

\* search_memories returns fewer than top_k results although at least top_k
\* active records have a score of at least the threshold
UnderReturns(self, query, top_k, threshold) ==
    /\ Len(search_memories(self, query, top_k, threshold)) < top_k
    /\ Cardinality(ActiveMatches(self, query, threshold)) >= top_k

\* C27: in embedding mode search_memories can return fewer than top_k results
\* although at least top_k active records have score >= threshold (the state
\* C27_Witness is reached), and whenever it does, the index was asked for
\* 2*top_k candidates and more than top_k of them are records that are
\* soft-deleted (or hold the deletion sentinel) and await a cleanup
C27_UnderReturnBySoftDeletes ==
    \A query \in Queries, top_k \in TopKs, threshold \in Thresholds :
        ( /\ store.model
          /\ store.index.kind = "faiss"
          /\ ~SearchRaises(store, query)
          /\ UnderReturns(store, query, top_k, threshold) )
            => LET cands == SearchCandidates(store, query, top_k)
               IN  /\ Len(cands) = 2 * top_k
                   /\ Cardinality({i \in 1..Len(cands) :
                                      IsExcluded(store, cands[i].idx)}) > top_k

\* embedding mode: two records that match the query best are soft-deleted and
\* not cleaned up, a third is active and scores above the threshold, and a
\* search with top_k = 1 returns nothing
C27_Witness ==
    /\ store.model
    /\ store.index.kind = "faiss"
    /\ Cardinality(store.deleted_ids) = 2
    /\ Len(store.memory_ids) = 3
    /\ ActiveMatches(store, <<"b", " ", "a">>, Rat(0, 1)) = {2}
    /\ \A i \in 1..2 : Dot(Encode(<<"b", " ", "a">>), store.index.data[i])
                           > Dot(Encode(<<"b", " ", "a">>), store.index.data[3])
    /\ search_memories(store, <<"b", " ", "a">>, 1, Rat(0, 1)) = <<>>

\* ---------------------------------------------------------------- C28
\* the active records whose Jaccard similarity to the query is at least the
\* threshold
LexicalMatches(self, query, threshold) ==
    {idx \in ActivePositions(self) :
        GE(_simple_similarity(query, self.memories[idx + 1]), threshold)}

\* C28: in fallback mode search_memories returns exactly the min(top_k, n)
\* highest-scoring active records, n being the number of active records
\* whose score is at least the threshold, however many soft-deleted records
\* the store holds
C28_FallbackNeverUnderReturns ==
    ~store.model =>
        \A query \in Queries, top_k \in TopKs, threshold \in Thresholds :
            LET found == search_memories(store, query, top_k, threshold)
                matches == LexicalMatches(store, query, threshold)
                returned == {found[i].index : i \in 1..Len(found)}
            IN  /\ Len(found) = Min2(top_k, Cardinality(matches))
                /\ Cardinality(returned) = Len(found)
                /\ returned \subseteq matches
                /\ \A idx \in returned, other \in matches \ returned :
                       GE(_simple_similarity(query, store.memories[idx + 1]),
                          _simple_similarity(query, store.memories[other + 1]))

\* a fallback-mode store holding two soft-deleted records inserted before an
\* active one, in which a search with top_k = 1 finds the active record
C28_Witness ==
    /\ ~store.model
    /\ Len(store.memory_ids) = 3
    /\ store.deleted_ids = {store.memory_ids[1], store.memory_ids[2]}
    /\ LexicalMatches(store, <<"a">>, Rat(7, 10)) = {2}
    /\ Len(search_memories(store, <<"a">>, 1, Rat(7, 10))) = 1

\* ---------------------------------------------------------------- C29
\* C29: delete_memories_by_content(query, threshold) soft-deletes exactly
\* the records search_memories(query, top_k=10, threshold) returns at the
\* time of the call and returns their ids: at most 10, each active before
\* and of score >= threshold; no other record is changed
C29_DeletesWhatSearchReturns ==
    [][ last'.op = "delete_memories_by_content" =>
          LET found == search_memories(store, last'.arg[1], ContentTopK, last'.arg[2])
              ids == ResultIds(found)
          IN  /\ last'.exc = "none"
              /\ Range(last'.ret) = ids
              /\ Len(last'.ret) = Cardinality(ids)
              /\ Len(last'.ret) <= ContentTopK
              /\ \A i \in 1..Len(found) :
                    /\ found[i].index \in ActivePositions(store)
                    /\ GE(found[i].score, last'.arg[2])
              /\ store'.deleted_ids = store.deleted_ids \cup ids
              /\ store'.memory_ids = store.memory_ids
              /\ store'.next_id = store.next_id
              /\ store'.index = store.index
              /\ \A p \in 1..Len(store.memory_ids) :
                    IF store.memory_ids[p] \in ids
                    THEN /\ store'.memories[p] = DELETED
                         /\ store'.metadata[p] = DeletionMarker(now)
                    ELSE /\ store'.memories[p] = store.memories[p]
                         /\ store'.metadata[p] = store.metadata[p]
      ]_vars

\* a deletion by content on a store of eleven matching records has deleted
\* ten of them and left the eleventh active
C29_Witness ==
    /\ last.op = "delete_memories_by_content"
    /\ Len(last.ret) = ContentTopK
    /\ Len(store.memory_ids) = ContentTopK + 1
    /\ Cardinality(store.deleted_ids) = ContentTopK
    /\ Cardinality(ActivePositions(store)) = 1

\* ---------------------------------------------------------------- C30
\* the positions of the records that are not soft-deleted and whose timestamp
\* is newer than the cutoff
NewerThan(self, cutoff) ==
    {p \in 1..Len(self.memory_ids) :
        /\ self.memory_ids[p] \notin self.deleted_ids
        /\ self.metadata[p].timestamp > cutoff}

C31_CleanupKeepsActive ==
    [][ last'.op = "cleanup_deleted_memories"
          => IF store.deleted_ids = {}
             THEN store' = store
             ELSE LET active == {p + 1 : p \in ActivePositions(store)}
                  IN  /\ store'.memory_ids = Pick(store.memory_ids, active, 1)
                      /\ store'.memories = Pick(store.memories, active, 1)
                      /\ store'.metadata = Pick(store.metadata, active, 1)
                      /\ store'.deleted_ids = {}
                      /\ store'.next_id = store.next_id
                      /\ IndexCount(store'.index) = Len(store'.memory_ids) ]_vars

\* C32: in every reachable store state get_memory_stats().active equals the
\* number of records that are active by the data model (id not in deleted_ids
\* and text different from the deletion sentinel), the records search and list
\* can still return, for any texts add_memory accepts.
C32_ActiveCountsActive ==
    get_memory_stats(store).active = Cardinality(ActivePositions(store))

\* ---------------------------------------------------------------- C33
\* the decisions to store that the detector takes from an explicit keyword or
\* a personal disclosure, over the shorter utterances
KeywordDecisions ==
    {d \in {detect_memory_request(u) : u \in Phrases(MaxFragments - 1)} :
        /\ d[1]
        /\ d[2] = <<"explicit">> \/ SubSeq(d[2], 1, 1) = <<"personal_">>}

\* C33: every decision to store that the Trigger Detector takes from its
\* structural heuristics (declarative statement, future plan, importance
\* marker) carries a confidence strictly lower than that of every decision
\* taken from an explicit keyword and of every decision taken from a personal
\* disclosure, and every confidence lies in [0, 1].
C33_StructuralLowest ==
    last.op = "detect_memory_request" =>
        /\ GE(last.ret[4], Rat(0, 1))
        /\ GE(Rat(1, 1), last.ret[4])
        /\ (last.ret[1] /\ last.ret[2] \in {<<"declarative">>, <<"plan">>, <<"important_fact">>})
              => \A d \in KeywordDecisions : GT(d[4], last.ret[4])

\* C34: the alignment len(memory_ids) = len(memories) = len(metadata) = index
\* size also holds after load_from_disk in every outcome, for the files of an
\* aligned store: when only one of the two files exists, and when reading the
\* record bundle fails after the index file has been read.
C34_LoadKeepsAlignment ==
    (last.op = "load_from_disk" /\ Aligned(store)) => Aligned(restored)

\* C35: the vector dimension is fixed for a store instance and matches across
\* save and load: in every reachable state, also after load_from_disk of files
\* written by a store running in the other mode (embedding or fallback), the
\* dimension of the index equals the store's configured dimension, so that a
\* following add_memory succeeds.
C35_DimensionFixed ==
    /\ store.index.dimension = store.dimension
    /\ restored.index.dimension = restored.dimension
    /\ \A fake \in FakeRows(restored, 1) :
          LET o == add_memory(restored, <<"a">>, <<>>, now, fake)
          IN  o.exc = "none" /\ o.ret = restored.next_id

\* C36: if the embedding call made inside cleanup_deleted_memories fails, the
\* store is left exactly as it was before the call: records, ids, deleted_ids
\* and the index are unchanged and still aligned.
C36_CleanupAllOrNothing ==
    [][ (last'.op = "cleanup_deleted_memories" /\ last'.exc # "none")
           => store' = store /\ (Aligned(store) => Aligned(store')) ]_vars

\* ---------------------------------------------------------------- C37
\* the texts of the bullets of a context, in order
Bullets(context) ==
    LET bullets == SelectSeq(context, LAMBDA piece : piece.part = "bullet")
    IN  [i \in 1..Len(bullets) |-> bullets[i].text]

\* C37: within one normal turn retrieval happens before the insert: the
\* relevant_memories and the context process_input returns never contain the
\* record the same turn inserted, and every memory they contain was active
\* when the turn began.
C37_RetrievalBeforeInsert ==
    [][ ( /\ last'.op = "process_input"
          /\ last'.exc = "none"
          /\ ~last'.ret[1].has_response )
           => LET result == last'.ret[1]
                  listed == Bullets(last'.ret[2])
                  relevant_memories == last'.ret[3]
              IN  /\ Len(listed) = Len(relevant_memories)
                  /\ \A i \in 1..Len(relevant_memories) :
                        LET memory == relevant_memories[i]
                        IN  /\ memory.index \in ActivePositions(store)
                            /\ memory.id = store.memory_ids[memory.index + 1]
                            /\ memory.text = store.memories[memory.index + 1]
                            /\ listed[i] = store.memories[memory.index + 1]
                            /\ result.memory_id # None => memory.id # result.memory_id[1] ]_vars

\* C37 witness: a turn that retrieved an earlier record and inserted a record
\* that a retrieval for the same utterance made now returns
C37_Witness ==
    /\ last.op = "process_input"
    /\ last.exc = "none"
    /\ last.ret[1].memory_action = "add"
    /\ last.ret[3] # <<>>
    /\ last.ret[1].memory_id[1] \notin ResultIds(last.ret[3])
    /\ last.ret[1].memory_id[1] \in
           ResultIds(search_memories(store, Strip(last.arg[1]), RetrievalTopK, Rat(6, 10)))

\* ---------------------------------------------------------------- C38
\* C38: when a store that starts empty is driven only through process_input
\* and add_memory_manually, deleted_ids is empty after every turn: no
\* soft-deleted record outlives the turn that deleted it, and
\* get_memory_stats() reports deleted = 0 and cleanup_needed = false between
\* turns.
C38_NoPendingDeletes ==
    /\ store.deleted_ids = {}
    /\ get_memory_stats(store).deleted = 0
    /\ ~get_memory_stats(store).cleanup_needed

\* C38 witness: a deletion turn has soft-deleted one of two records and the
\* store holds the other
C38_Witness ==
    /\ last.op = "process_input"
    /\ last.exc = "none"
    /\ last.ret[1].memory_action = "delete"
    /\ last.ret[1].deleted_count = 1
    /\ "cleanup_deleted_memories" \in Range(last.calls)
    /\ Len(store.memory_ids) = 1
    /\ store.next_id = 2

\* ---------------------------------------------------------------- C39
\* C39: no utterance that contains an explicit memory-request keyword of the
\* Trigger Detector's table is handled by process_input as a deletion: such
\* an utterance, when it is not a query, ends its turn with memory_action =
\* add and deletes nothing.
C39_RememberNeverDeletes ==
    [][ ( /\ last'.op = "process_input"
          /\ ContainsAny(Strip(last'.arg[1]), explicit_memory_requests)
          /\ ~_is_query(Strip(last'.arg[1])) )
           => /\ last'.exc = "none"
              /\ last'.ret[1].memory_action = "add"
              /\ last'.ret[1].deleted_count = 0
              /\ deleted_log' = deleted_log
              /\ Range(store.memory_ids) \subseteq Range(store'.memory_ids) ]_vars

\* ---------------------------------------------------------------- C40
\* C40: the context of a normal turn lists exactly the texts of the
\* relevant_memories retrieved in that turn, one bullet each in ranked order
\* (at most 3, each with score >= 0.6), contains the 'no relevant memory'
\* sentence if and only if that list is empty, and always contains the
\* current utterance.
C40_ContextListsRetrieved ==
    [][ ( /\ last'.op = "process_input"
          /\ last'.exc = "none"
          /\ ~last'.ret[1].has_response )
           => LET user_input == Strip(last'.arg[1])
                  context == last'.ret[2]
                  relevant_memories == last'.ret[3]
                  HasPart(part) == \E p \in 1..Len(context) : context[p].part = part
              IN  /\ relevant_memories = search_memories(store, user_input, RetrievalTopK, Rat(6, 10))
                  /\ Len(relevant_memories) <= 3
                  /\ \A i \in 1..Len(relevant_memories) :
                        /\ GE(relevant_memories[i].score, Rat(6, 10))
                        /\ \A j \in (i + 1)..Len(relevant_memories) :
                              GE(relevant_memories[i].score, relevant_memories[j].score)
                  /\ Bullets(context) =
                        [i \in 1..Len(relevant_memories) |-> relevant_memories[i].text]
                  /\ HasPart("no_relevant_memory") <=> relevant_memories = <<>>
                  /\ \E p \in 1..Len(context) :
                        context[p] = [part |-> "input", text |-> user_input]
                  /\ last'.ret[1].llm_context = context ]_vars

\* C40 witness: a normal turn over a store of four records that all match
\* returned the three best, of different scores, and its context lists them
C40_Witness ==
    /\ last.op = "process_input"
    /\ last.exc = "none"
    /\ ~last.ret[1].has_response
    /\ Len(store.memories) = 4
    /\ Len(last.ret[3]) = 3
    /\ GT(last.ret[3][1].score, last.ret[3][3].score)
    /\ Len(search_memories(store, Strip(last.arg[1]), 4, Rat(6, 10))) = 4
    /\ Len(Bullets(last.ret[2])) = 3

====
